---------------------------- MODULE Spec2Model ----------------------------
(***************************************************************************)
(* Model of the Langfuse chat assistant: the tool-calling orchestration    *)
(* loop (sendMessageToLLM, executeToolCalls) and the documentation search  *)
(* engine (searchDocumentation, splitIntoSections, calculateRelevance),    *)
(* and the procedures of assistantRouter on the tables conversations and   *)
(* messages.                                                               *)
(*                                                                         *)
(* JavaScript strings are TLA+ strings (TLC gives Len, \o and SubSeq on    *)
(* them).  A JavaScript value whose type the code inspects is a tagged     *)
(* record: [type |-> "string", value |-> s], [type |-> "number", num |-> n],*)
(* [type |-> "array", items |-> seq], [type |-> "object", fields |-> rec]  *)
(* or [type |-> "undefined"]; the fields of an object are the DOMAIN of    *)
(* rec, so `"f" in obj` is "f" \in DOMAIN obj.fields.                      *)
(***************************************************************************)
EXTENDS Integers, Sequences, FiniteSets, TLC

(***************************************************************************)
(* Bounds of the model.                                                    *)
(***************************************************************************)
MaxHistory == 2
MaxToolCalls == 2
\* The conversations of the table conversations.
MaxConversations == 2

(***************************************************************************)
(* String primitives of the JavaScript runtime.                            *)
(***************************************************************************)
CharAt(s, i) == SubSeq(s, i, i)

UpperCaseLetters == "ABCDEFGHIJKLMNOPQRSTUVWXYZ"
LowerCaseLetters == "abcdefghijklmnopqrstuvwxyz"

ToLowerChar(c) ==
    IF \E i \in 1..Len(UpperCaseLetters) : CharAt(UpperCaseLetters, i) = c
    THEN CharAt(LowerCaseLetters,
                CHOOSE i \in 1..Len(UpperCaseLetters) : CharAt(UpperCaseLetters, i) = c)
    ELSE c

RECURSIVE toLowerCase(_)
toLowerCase(s) ==
    IF s = "" THEN "" ELSE ToLowerChar(CharAt(s, 1)) \o toLowerCase(Tail(s))

IsWhitespace(c) == c \in {" ", "\n", "\t", "\r"}

\* String.prototype.startsWith
startsWith(s, p) == Len(p) <= Len(s) /\ SubSeq(s, 1, Len(p)) = p

\* Position of the first occurrence of the literal p in s at or after index
\* from (1-based), 0 when there is none.  An empty p occurs at from.
RECURSIVE IndexOfFrom(_, _, _)
IndexOfFrom(s, p, from) ==
    IF from + Len(p) - 1 > Len(s) THEN 0
    ELSE IF SubSeq(s, from, from + Len(p) - 1) = p THEN from
    ELSE IndexOfFrom(s, p, from + 1)

\* String.prototype.includes
includes(s, p) == IndexOfFrom(s, p, 1) # 0

\* String.prototype.replace(p, r) with a string pattern: the first occurrence.
replaceFirst(s, p, r) ==
    LET i == IndexOfFrom(s, p, 1)
    IN  IF i = 0 THEN s
        ELSE SubSeq(s, 1, i - 1) \o r \o SubSeq(s, i + Len(p), Len(s))

\* String.prototype.replace(/p/g, r) for a literal, non-empty p.
RECURSIVE replaceAll(_, _, _)
replaceAll(s, p, r) ==
    LET i == IndexOfFrom(s, p, 1)
    IN  IF i = 0 THEN s
        ELSE SubSeq(s, 1, i - 1) \o r \o replaceAll(SubSeq(s, i + Len(p), Len(s)), p, r)

RECURSIVE TrimStart(_)
TrimStart(s) ==
    IF s # "" /\ IsWhitespace(CharAt(s, 1)) THEN TrimStart(Tail(s)) ELSE s

RECURSIVE TrimEnd(_)
TrimEnd(s) ==
    IF s # "" /\ IsWhitespace(CharAt(s, Len(s)))
    THEN TrimEnd(SubSeq(s, 1, Len(s) - 1)) ELSE s

\* String.prototype.trim
trim(s) == TrimEnd(TrimStart(s))

\* String.prototype.split("\n"): the pieces between the separators; the empty
\* string gives one empty piece.
RECURSIVE splitLines(_)
splitLines(s) ==
    LET i == IndexOfFrom(s, "\n", 1)
    IN  IF i = 0 THEN <<s>>
        ELSE <<SubSeq(s, 1, i - 1)>> \o splitLines(SubSeq(s, i + 1, Len(s)))

\* Length of the run of whitespace starting at index i of s.
RECURSIVE WhitespaceRun(_, _)
WhitespaceRun(s, i) ==
    IF i <= Len(s) /\ IsWhitespace(CharAt(s, i)) THEN 1 + WhitespaceRun(s, i + 1) ELSE 0

\* String.prototype.split(/\s+/): pieces between maximal whitespace runs; leading
\* or trailing whitespace gives a leading or trailing empty piece.
RECURSIVE SplitWsFrom(_, _, _)
SplitWsFrom(s, i, cur) ==
    IF i > Len(s) THEN <<cur>>
    ELSE IF IsWhitespace(CharAt(s, i))
         THEN <<cur>> \o SplitWsFrom(s, i + WhitespaceRun(s, i), "")
         ELSE SplitWsFrom(s, i + 1, cur \o CharAt(s, i))

splitWhitespace(s) == SplitWsFrom(s, 1, "")

\* Array.prototype.join
RECURSIVE join(_, _)
join(parts, sep) ==
    IF parts = <<>> THEN ""
    ELSE IF Len(parts) = 1 THEN parts[1]
    ELSE parts[1] \o sep \o join(Tail(parts), sep)

Digits == "0123456789"

\* String(n) for a non-negative integer.
RECURSIVE NumberToString(_)
NumberToString(n) ==
    IF n < 10 THEN CharAt(Digits, n + 1)
    ELSE NumberToString(n \div 10) \o CharAt(Digits, (n % 10) + 1)

Min(a, b) == IF a <= b THEN a ELSE b

(***************************************************************************)
(* Documentation search engine (docs.ts).                                  *)
(***************************************************************************)
STOP_WORDS ==
    {"how", "do", "does", "i", "can", "what", "is", "are", "the", "a", "an",
     "to", "in", "on", "for", "with", "from", "my", "me", "you", "should",
     "would", "could"}

\* SplitLoop that does not add the last section after the loop.
RECURSIVE SplitLoopLosesLastSection(_, _, _)
SplitLoopLosesLastSection(lines, sections, cur) ==
    IF lines = <<>>
    THEN sections
    ELSE LET line == lines[1]
         IN  IF startsWith(line, "## ")
             THEN SplitLoopLosesLastSection(Tail(lines),
                            IF cur.open
                            THEN Append(sections, [title |-> cur.title, content |-> cur.content])
                            ELSE sections,
                            [open |-> TRUE,
                             title |-> trim(replaceFirst(line, "## ", "")),
                             content |-> ""])
             ELSE IF cur.open
             THEN SplitLoopLosesLastSection(Tail(lines), sections,
                            [cur EXCEPT !.content = cur.content \o line \o "\n"])
             ELSE SplitLoopLosesLastSection(Tail(lines), sections, cur)

\* splitIntoSections: the state of the loop over the lines is the list of
\* finished sections and the current section (cur.open = FALSE models null).
RECURSIVE SplitLoop(_, _, _)
SplitLoop(lines, sections, cur) ==
    IF lines = <<>>
    THEN IF cur.open THEN Append(sections, [title |-> cur.title, content |-> cur.content])
         ELSE sections
    ELSE LET line == lines[1]
         IN  IF startsWith(line, "## ")
             THEN SplitLoop(Tail(lines),
                            IF cur.open
                            THEN Append(sections, [title |-> cur.title, content |-> cur.content])
                            ELSE sections,
                            [open |-> TRUE,
                             title |-> trim(replaceFirst(line, "## ", "")),
                             content |-> ""])
             ELSE IF cur.open
             THEN SplitLoop(Tail(lines), sections,
                            [cur EXCEPT !.content = cur.content \o line \o "\n"])
             ELSE SplitLoop(Tail(lines), sections, cur)

splitIntoSections(markdown) ==
    SplitLoop(splitLines(markdown), <<>>, [open |-> FALSE, title |-> "", content |-> ""])

normalizeQuery(query) ==
    replaceAll(replaceAll(replaceAll(replaceAll(query,
        "organisation", "organization"),
        "visualise", "visualize"),
        "initialise", "initialize"),
        "analyse", "analyze")

BeginnerQueryWords ==
    {"create", "new", "start", "begin", "setup", "get started", "make", "add",
     "first", "initial"}

BeginnerSectionWords ==
    {"getting started", "creating", "setup", "introduction", "quick start",
     "first", "initial"}

\* /a|b|.../i.test(s): some alternative occurs in s, case-insensitively.
isBeginnerQuery(query) ==
    \E w \in BeginnerQueryWords : includes(toLowerCase(query), w)

isBeginnerSection(title) ==
    \E w \in BeginnerSectionWords : includes(toLowerCase(title), w)

\* new RegExp(term, "g").  The pattern syntax modelled: "." matches any
\* character but a line break, every other character but "(" and ")" matches
\* itself, and a pattern with an unclosed "(" is a SyntaxError.
RegExpThrows(term) == includes(term, "(") /\ ~includes(term, ")")

RegExpCharMatches(p, c) ==
    IF p = "." THEN c \notin {"\n", "\r"} ELSE p = c

RegExpMatchesAt(term, text, i) ==
    /\ i + Len(term) - 1 <= Len(text)
    /\ \A k \in 1..Len(term) : RegExpCharMatches(CharAt(term, k), CharAt(text, i + k - 1))

\* (text.match(new RegExp(term, "g")) || []).length: the matches are found
\* left to right and do not overlap; the empty pattern matches at every
\* position, the end included.
RECURSIVE RegExpCountFrom(_, _, _)
RegExpCountFrom(term, text, i) ==
    IF i + Len(term) - 1 > Len(text) THEN 0
    ELSE IF RegExpMatchesAt(term, text, i)
         THEN 1 + RegExpCountFrom(term, text, i + Len(term))
         ELSE RegExpCountFrom(term, text, i + 1)

RegExpMatchCount(term, text) ==
    IF term = "" THEN Len(text) + 1 ELSE RegExpCountFrom(term, text, 1)

\* QueryTerms that splits the query as typed, not the normalized one.
QueryTermsOfRawQuery(queryLower, normalizedQuery) ==
    LET filtered == SelectSeq(SelectSeq(splitWhitespace(queryLower),
                                        LAMBDA term : Len(term) > 2),
                              LAMBDA term : term \notin STOP_WORDS)
    IN  IF Len(filtered) = 0 THEN <<queryLower>> ELSE filtered

\* The query terms of calculateRelevance (lines 321-330).
QueryTerms(queryLower, normalizedQuery) ==
    LET filtered == SelectSeq(SelectSeq(splitWhitespace(normalizedQuery),
                                        LAMBDA term : Len(term) > 2),
                              LAMBDA term : term \notin STOP_WORDS)
    IN  IF Len(filtered) = 0 THEN <<queryLower>> ELSE filtered

RECURSIVE TermScore(_, _, _)
TermScore(terms, titleLower, contentLower) ==
    IF terms = <<>> THEN 0
    ELSE RegExpMatchCount(terms[1], titleLower) * 15
         + RegExpMatchCount(terms[1], contentLower)
         + TermScore(Tail(terms), titleLower, contentLower)

\* calculateRelevance that multiplies the term score by 1.5 before it adds
\* the two bonuses.
calculateRelevanceOfStringBoostFirst(query, content, title) ==
    LET queryLower == toLowerCase(query)
        contentLower == toLowerCase(content)
        titleLower == toLowerCase(title)
        normalizedQuery == normalizeQuery(queryLower)
        queryTerms == QueryTerms(queryLower, normalizedQuery)
        terms == TermScore(queryTerms, titleLower, contentLower)
        phrase == IF includes(contentLower, normalizedQuery) THEN 50 ELSE 0
        inTitle == IF includes(titleLower, normalizedQuery) THEN 100 ELSE 0
    IN  IF \E k \in 1..Len(queryTerms) : RegExpThrows(queryTerms[k])
        THEN [ok |-> FALSE, error |-> "Invalid regular expression: Unterminated group"]
        ELSE [ok |-> TRUE,
              value |-> IF isBeginnerQuery(normalizedQuery) /\ isBeginnerSection(titleLower)
                        THEN terms * 3 + (phrase + inTitle) * 2
                        ELSE (terms + phrase + inTitle) * 2]

\* calculateRelevance on a query that is a string.  The JavaScript number it
\* returns may be a half (score *= 1.5), so the model carries TWICE the
\* score: an integer.  [ok |-> FALSE] is a thrown exception.
calculateRelevanceOfString(query, content, title) ==
    LET queryLower == toLowerCase(query)
        contentLower == toLowerCase(content)
        titleLower == toLowerCase(title)
        normalizedQuery == normalizeQuery(queryLower)
        queryTerms == QueryTerms(queryLower, normalizedQuery)
        terms == TermScore(queryTerms, titleLower, contentLower)
        phrase == IF includes(contentLower, normalizedQuery) THEN 50 ELSE 0
        inTitle == IF includes(titleLower, normalizedQuery) THEN 100 ELSE 0
        score == terms + phrase + inTitle
    IN  IF \E k \in 1..Len(queryTerms) : RegExpThrows(queryTerms[k])
        THEN [ok |-> FALSE, error |-> "Invalid regular expression: Unterminated group"]
        ELSE [ok |-> TRUE,
              value |-> IF isBeginnerQuery(normalizedQuery) /\ isBeginnerSection(titleLower)
                        THEN score * 3 ELSE score * 2]

\* calculateRelevance(query, content, title); query is a JavaScript value:
\* query.toLowerCase() is a TypeError unless query is a string.
calculateRelevance(query, content, title) ==
    IF query.type = "string" THEN calculateRelevanceOfString(query.value, content, title)
    ELSE IF query.type = "undefined"
    THEN [ok |-> FALSE,
          error |-> "Cannot read properties of undefined (reading 'toLowerCase')"]
    ELSE [ok |-> FALSE, error |-> "query.toLowerCase is not a function"]

\* Array.prototype.sort((a, b) => b.relevance - a.relevance): stable, by
\* descending relevance.  Insert x after every element that is not smaller.
\* InsertByRelevance that puts x before the entries of its relevance.
RECURSIVE InsertByRelevanceBeforeEqual(_, _)
InsertByRelevanceBeforeEqual(sorted, x) ==
    IF sorted = <<>> THEN <<x>>
    ELSE IF sorted[1].relevance > x.relevance
    THEN <<sorted[1]>> \o InsertByRelevanceBeforeEqual(Tail(sorted), x)
    ELSE <<x>> \o sorted

RECURSIVE InsertByRelevance(_, _)
InsertByRelevance(sorted, x) ==
    IF sorted = <<>> THEN <<x>>
    ELSE IF sorted[1].relevance >= x.relevance
    THEN <<sorted[1]>> \o InsertByRelevance(Tail(sorted), x)
    ELSE <<x>> \o sorted

RECURSIVE SortByRelevance(_)
SortByRelevance(results) ==
    IF results = <<>> THEN <<>>
    ELSE InsertByRelevance(SortByRelevance(SubSeq(results, 1, Len(results) - 1)),
                           results[Len(results)])

\* searchDocumentation whose filter keeps the sections of relevance 0.
searchDocumentationKeepsZero(query, limit, docsFile) ==
    IF ~docsFile.readable
    THEN [ok |-> FALSE, error |-> "ENOENT: no such file or directory"]
    ELSE LET sections == splitIntoSections(docsFile.content)
             scored == [i \in 1..Len(sections) |->
                           calculateRelevance(query, sections[i].content, sections[i].title)]
         IN  IF \E i \in 1..Len(sections) : ~scored[i].ok
             THEN [ok |-> FALSE,
                   error |-> scored[CHOOSE i \in 1..Len(sections) :
                                       /\ ~scored[i].ok
                                       /\ \A j \in 1..(i - 1) : scored[j].ok].error]
             ELSE LET results == [i \in 1..Len(sections) |->
                                     [section |-> sections[i].title,
                                      content |-> sections[i].content,
                                      relevance |-> scored[i].value]]
                      positive == SelectSeq(results, LAMBDA r : r.relevance >= 0)
                      sorted == SortByRelevance(positive)
                  IN  [ok |-> TRUE, value |-> SubSeq(sorted, 1, Min(limit, Len(sorted)))]

\* searchDocumentation(query, limit) on the documentation file docsFile:
\* [readable |-> FALSE] when fs.readFileSync throws.  Any exception is logged
\* and thrown again.
searchDocumentation(query, limit, docsFile) ==
    IF ~docsFile.readable
    THEN [ok |-> FALSE, error |-> "ENOENT: no such file or directory"]
    ELSE LET sections == splitIntoSections(docsFile.content)
             scored == [i \in 1..Len(sections) |->
                           calculateRelevance(query, sections[i].content, sections[i].title)]
         IN  IF \E i \in 1..Len(sections) : ~scored[i].ok
             THEN [ok |-> FALSE,
                   error |-> scored[CHOOSE i \in 1..Len(sections) :
                                       /\ ~scored[i].ok
                                       /\ \A j \in 1..(i - 1) : scored[j].ok].error]
             ELSE LET results == [i \in 1..Len(sections) |->
                                     [section |-> sections[i].title,
                                      content |-> sections[i].content,
                                      relevance |-> scored[i].value]]
                      positive == SelectSeq(results, LAMBDA r : r.relevance > 0)
                      sorted == SortByRelevance(positive)
                  IN  [ok |-> TRUE, value |-> SubSeq(sorted, 1, Min(limit, Len(sorted)))]

(***************************************************************************)
(* Tool executor and conversation orchestrator (service.ts).               *)
(***************************************************************************)
SYSTEM_PROMPT ==
    "You are the Langfuse Assistant, an AI helper specifically designed to help users understand and use Langfuse."

DOCUMENTATION_SEARCH_TOOL ==
    [name |-> "search_documentation",
     description |-> "Search Langfuse documentation for information about features, APIs, SDKs, and how to use Langfuse.",
     parameters |-> [type |-> "object", required |-> <<"query">>]]

Undefined == [type |-> "undefined"]
Null == [type |-> "null"]

\* conversationId: string | null (ChatView.tsx line 11).  The id of a
\* conversation is its place in the table, 1 or more; this is null.
NoConversation == 0
Str(s) == [type |-> "string", value |-> s]

\* String(v) and `${v}` of a JavaScript value.
JSString(v) ==
    CASE v.type = "string" -> v.value
      [] v.type = "number" -> NumberToString(v.num)
      [] v.type = "undefined" -> "undefined"
      [] v.type = "array" -> join([i \in 1..Len(v.items) |-> "[object Object]"], ",")
      [] OTHER -> "[object Object]"

\* call.arguments.query: undefined when the arguments have no such field.
QueryOf(call) ==
    IF "query" \in DOMAIN call.arguments THEN call.arguments.query ELSE Undefined

\* FormatResult that marks a content of exactly 500 characters as cut.
FormatResultEllipsisAt500(result, i) ==
    NumberToString(i) \o ". **" \o result.section \o "**\n\n"
        \o SubSeq(result.content, 1, Min(500, Len(result.content)))
        \o (IF Len(result.content) >= 500 THEN "..." ELSE "") \o "\n"

\* One formatted search result (service.ts line 359).
FormatResult(result, i) ==
    NumberToString(i) \o ". **" \o result.section \o "**\n\n"
        \o SubSeq(result.content, 1, Min(500, Len(result.content)))
        \o (IF Len(result.content) > 500 THEN "..." ELSE "") \o "\n"

\* resultContent of a search that returned searchResults (lines 356-366).
ResultContent(query, searchResults) ==
    IF Len(searchResults) > 0
    THEN "Found " \o NumberToString(Len(searchResults))
            \o " relevant documentation sections:\n\n"
            \o join([i \in 1..Len(searchResults) |-> FormatResult(searchResults[i], i)], "\n")
    ELSE "No documentation found for query: \"" \o JSString(query) \o "\""

\* LoopBody with a catch block that pushes nothing: the failure is dropped.
LoopBodyDropsFailures(call, file) ==
    IF call.name = "search_documentation"
    THEN LET query == QueryOf(call)
             search == searchDocumentation(query, 5, file)
         IN  [searches |-> <<query>>,
              pushes |->
                 IF search.ok
                 THEN <<[toolCallId |-> call.id,
                         content |-> ResultContent(query, search.value)]>>
                 ELSE <<>>]
    ELSE [searches |-> <<>>,
          pushes |-> <<[toolCallId |-> call.id,
                        content |-> "Error: Unknown tool \"" \o call.name \o "\""]>>]

\* LoopBody without the test of the tool name: every call is searched.
LoopBodySearchesAnyTool(call, file) ==
    LET query == QueryOf(call)
        search == searchDocumentation(query, 5, file)
    IN  [searches |-> <<query>>,
         pushes |->
            IF search.ok
            THEN <<[toolCallId |-> call.id,
                    content |-> ResultContent(query, search.value)]>>
            ELSE <<[toolCallId |-> call.id,
                    content |-> "Error executing tool: " \o search.error]>>]

\* One iteration of the loop of executeToolCalls for call (lines 346-408),
\* the try block and its catch: the results it pushes, and the queries it
\* calls searchDocumentation with.
LoopBody(call, file) ==
    IF call.name = "search_documentation"
    THEN LET query == QueryOf(call)
             search == searchDocumentation(query, 5, file)
         IN  [searches |-> <<query>>,
              pushes |->
                 IF search.ok
                 THEN <<[toolCallId |-> call.id,
                         content |-> ResultContent(query, search.value)]>>
                 ELSE <<[toolCallId |-> call.id,
                         content |-> "Error executing tool: " \o search.error]>>]
    ELSE [searches |-> <<>>,
          pushes |-> <<[toolCallId |-> call.id,
                        content |-> "Error: Unknown tool \"" \o call.name \o "\""]>>]

(***************************************************************************)
(* Inputs: the conversation histories, the documentation file, and what    *)
(* the completion service (fetchLLMCompletion) may answer.                 *)
(***************************************************************************)
HistoryMessages ==
    {[sender |-> "user", content |-> "How do I create a project?"],
     [sender |-> "assistant", content |-> "Go to Settings."],
     [sender |-> "system", content |-> "note"]}

Histories == UNION {[1..n -> HistoryMessages] : n \in 0..MaxHistory}

GuideText ==
    "# Guide\nintro\n## Getting Started\nCreate a project.\n## Tracing\nTraces record calls.\ntraces\n"

DocsFiles ==
    {[readable |-> FALSE, content |-> ""],
     [readable |-> TRUE, content |-> ""],
     [readable |-> TRUE, content |-> GuideText]}

\* Tool calls as the completion service returns them: {id, name, args}.
RawToolCalls ==
    {[id |-> "t1", name |-> "search_documentation", args |-> [query |-> Str("traces")]],
     [id |-> "t2", name |-> "search_documentation", args |-> [query |-> Str("")]],
     [id |-> "t3", name |-> "search_documentation", args |-> [limit |-> [type |-> "number", num |-> 3]]],
     [id |-> "t4", name |-> "search_documentation", args |-> [query |-> [type |-> "number", num |-> 42]]],
     [id |-> "t5", name |-> "unknown_tool", args |-> [query |-> Str("traces")]]}

RawToolCallLists == UNION {[1..n -> RawToolCalls] : n \in 1..MaxToolCalls}

StringContent == Str("Let me search.")
ArrayContent ==
    [type |-> "array",
     items |-> <<[type |-> "text", text |-> "Let me"],
                 [type |-> "tool_use", id |-> "t1"],
                 [type |-> "text", text |-> "search."]>>]

Obj(fields) == [type |-> "object", fields |-> fields]
Arr(seq) == [type |-> "array", items |-> seq]

\* Responses that carry a non-empty tool-call list.
ToolCallCompletions ==
    {Obj([content |-> StringContent, tool_calls |-> Arr(l)]) : l \in RawToolCallLists}
    \cup {Obj([content |-> c, tool_calls |-> Arr(<<tc>>)]) :
             c \in {ArrayContent, Undefined}, tc \in RawToolCalls}

\* Responses without one: plain text, objects with content, an empty or a
\* non-array tool_calls, and malformed shapes.
PlainCompletions ==
    {Str("Hello!"),
     Obj([content |-> Str("Hi there")]),
     Obj([content |-> ArrayContent]),
     Obj([content |-> Str("No tools"), tool_calls |-> Arr(<<>>)]),
     Obj([content |-> Str("Odd"), tool_calls |-> Undefined]),
     Obj([tool_calls |-> Arr(<<>>)]),
     Obj([text |-> Str("no content field")]),
     Undefined}

FirstCompletions == ToolCallCompletions \cup PlainCompletions

FinalCompletions ==
    {Str("Final answer."),
     Obj([content |-> Str("again"),
          tool_calls |-> Arr(<<[id |-> "t9", name |-> "search_documentation",
                                args |-> [query |-> Str("traces")]]>>)]),
     Undefined}

\* Messages of the errors fetchLLMCompletion may throw.
ModelErrors == {"Request failed with status 401"}

(***************************************************************************)
(* State.                                                                  *)
(***************************************************************************)
VARIABLES
    apiKeyConfigured,   \* env.ASSISTANT_LLM_API_KEY is set
    docsFile,           \* the documentation file on disk
    messages,           \* params.messages of the run
    pc,                 \* where the run of sendMessageToLLM is
    formattedMessages,  \* formattedMessages
    completion,         \* the first response
    toolCalls,          \* toolCalls: ToolCall[]
    xpc,                \* executeToolCalls: "idle", "loop" or "returned"
    xcalls,             \* executeToolCalls: its argument
    xi,                 \* executeToolCalls: the calls the loop has been through
    results,            \* executeToolCalls: results
    llmCalls,           \* the invocations of fetchLLMCompletion, in order
    toolBatches,        \* the number of calls of executeToolCalls
    searchLog,          \* the queries searchDocumentation was called with
    reply,              \* what sendMessageToLLM returned
    error               \* what sendMessageToLLM threw

\* The database and the sendMessage requests of assistantRouter.
VARIABLES
    conversations,      \* the rows of the table conversations, in creation order
    dbMessages,         \* the rows of the table messages, in creation order
    requests            \* the calls of sendMessage, in the order they began

orchestratorVars ==
    <<apiKeyConfigured, docsFile, messages, pc, formattedMessages, completion,
      toolCalls, xpc, xcalls, xi, results, llmCalls, toolBatches, searchLog,
      reply, error>>

routerVars == <<conversations, dbMessages, requests>>

\* One call of searchDocumentation on its own.
VARIABLES
    searchQuery,        \* its argument query
    searchLimit,        \* its argument limit
    searchResult        \* what it returned or threw

searchVars == <<searchQuery, searchLimit, searchResult>>

\* One call of splitIntoSections, and one of calculateRelevance, on their own.
VARIABLES
    indexedMarkdown,    \* splitIntoSections: its argument markdown
    indexedSections,    \* splitIntoSections: what it returned
    scoredQuery,        \* calculateRelevance: its argument query
    scoredContent,      \* calculateRelevance: its argument content
    scoredTitle,        \* calculateRelevance: its argument title
    scoredRelevance     \* calculateRelevance: what it returned or threw

indexerVars == <<indexedMarkdown, indexedSections>>

scorerVars == <<scoredQuery, scoredContent, scoredTitle, scoredRelevance>>

\* The tracing of the runs of sendMessageToLLM.
VARIABLES
    tracingEnv,         \* which of env.LANGFUSE_AI_FEATURES_* are set
    langfuseClient,     \* utils.ts: the client singleton, or null
    clientCalls,        \* the calls of getLangfuseClient and what they returned
    traceParams         \* the trace arguments of the invocations in llmCalls

tracingVars == <<tracingEnv, langfuseClient, clientCalls, traceParams>>

\* ChatView.tsx and ChatInput.tsx: the chat of the assistant page.
VARIABLES
    selectedConversationId, \* the prop conversationId of ChatView
    isWaitingForResponse,   \* ChatView's state of that name
    message,                \* ChatInput's state: the text typed
    queryCache,             \* the cached data of getConversation, by conversation
    invalidated,            \* the conversations whose query is being refetched
    mutations               \* the sendMessage mutations: variables, context, status

chatVars ==
    <<selectedConversationId, isWaitingForResponse, message, queryCache, invalidated,
      mutations>>

vars ==
    <<orchestratorVars, routerVars, searchVars, indexerVars, scorerVars, tracingVars,
      chatVars>>

NoReply == [pending |-> TRUE]
NoError == [kind |-> "none"]

\* The deployment without LANGFUSE_AI_FEATURES_PUBLIC_KEY, _SECRET_KEY and
\* _PROJECT_ID.
TracingOff == [publicKey |-> FALSE, secretKey |-> FALSE, projectId |-> FALSE]

TracingEnvs == [publicKey : BOOLEAN, secretKey : BOOLEAN, projectId : BOOLEAN]

\* Everything but the tracing settings.
InitRun ==
    /\ apiKeyConfigured \in BOOLEAN
    /\ docsFile \in DocsFiles
    /\ messages \in Histories
    /\ pc = "Idle"
    /\ formattedMessages = <<>>
    /\ completion = Undefined
    /\ toolCalls = <<>>
    /\ xpc = "idle"
    /\ xcalls = <<>>
    /\ xi = 0
    /\ results = <<>>
    /\ llmCalls = <<>>
    /\ toolBatches = 0
    /\ searchLog = <<>>
    /\ reply = NoReply
    /\ error = NoError
    /\ conversations = <<>>
    /\ dbMessages = <<>>
    /\ requests = <<>>
    /\ searchQuery = Str("")
    /\ searchLimit = 5
    /\ searchResult = NoReply
    /\ indexedMarkdown = ""
    /\ indexedSections = NoReply
    /\ scoredQuery = Str("")
    /\ scoredContent = ""
    /\ scoredTitle = ""
    /\ scoredRelevance = NoReply
    /\ langfuseClient = Null
    /\ clientCalls = <<>>
    /\ traceParams = <<>>
    /\ selectedConversationId = NoConversation
    /\ isWaitingForResponse = FALSE
    /\ message = ""
    /\ queryCache = [id \in 1..MaxConversations |-> Undefined]
    /\ invalidated = {}
    /\ mutations = <<>>

Init ==
    /\ InitRun
    /\ tracingEnv = TracingOff

\* Rethrown that wraps every error, a TRPCError included.
RethrownAlwaysWraps(e) ==
    [kind |-> "TRPCError", code |-> "INTERNAL_SERVER_ERROR",
     message |-> "Failed to get response from LLM: " \o e.message,
     cause |-> e]

\* Rethrown that wraps without keeping the error it caught.
RethrownWithoutCause(e) ==
    IF e.kind = "TRPCError" THEN e
    ELSE [kind |-> "TRPCError", code |-> "INTERNAL_SERVER_ERROR",
          message |-> "Failed to get response from LLM: " \o e.message]

(***************************************************************************)
(* sendMessageToLLM.                                                       *)
(***************************************************************************)
\* The catch block of sendMessageToLLM (lines 301-332): a TRPCError is thrown
\* again as it is, anything else is wrapped.
Rethrown(e) ==
    IF e.kind = "TRPCError" THEN e
    ELSE [kind |-> "TRPCError", code |-> "INTERNAL_SERVER_ERROR",
          message |-> "Failed to get response from LLM: " \o e.message,
          cause |-> e]

\* FormatMessages that passes the sender on as the role.
FormatMessagesKeepsSender(history) ==
    <<[type |-> "system", role |-> "system", content |-> SYSTEM_PROMPT]>>
    \o [i \in 1..Len(history) |->
           [type |-> history[i].sender, role |-> history[i].sender,
            content |-> history[i].content]]

\* formattedMessages (lines 122-141).
FormatMessages(history) ==
    <<[type |-> "system", role |-> "system", content |-> SYSTEM_PROMPT]>>
    \o [i \in 1..Len(history) |->
           [type |-> IF history[i].sender = "user" THEN "user" ELSE "assistant",
            role |-> IF history[i].sender = "user" THEN "user" ELSE "assistant",
            content |-> history[i].content]]

\* HasToolCalls without the test of the length.
HasToolCallsAnyLength(c) ==
    /\ c.type = "object"
    /\ "tool_calls" \in DOMAIN c.fields
    /\ c.fields.tool_calls.type = "array"

\* The condition of lines 193-199.
HasToolCalls(c) ==
    /\ c.type = "object"
    /\ "tool_calls" \in DOMAIN c.fields
    /\ c.fields.tool_calls.type = "array"
    /\ Len(c.fields.tool_calls.items) > 0

\* ExtractToolCalls that numbers the calls instead of keeping their ids.
ExtractToolCallsRenumbered(c) ==
    [i \in 1..Len(c.fields.tool_calls.items) |->
        [id |-> "call_" \o NumberToString(i),
         name |-> c.fields.tool_calls.items[i].name,
         arguments |-> c.fields.tool_calls.items[i].args]]

\* toolCalls (lines 205-209).
ExtractToolCalls(c) ==
    [i \in 1..Len(c.fields.tool_calls.items) |->
        [id |-> c.fields.tool_calls.items[i].id,
         name |-> c.fields.tool_calls.items[i].name,
         arguments |-> c.fields.tool_calls.items[i].args]]

SegmentText(seg) == IF "text" \in DOMAIN seg THEN seg.text ELSE ""

\* InitialContent that keeps a place for the segments that are not text.
InitialContentAllSegments(c) ==
    IF "content" \in DOMAIN c.fields /\ c.fields.content.type = "string"
    THEN c.fields.content.value
    ELSE IF "content" \in DOMAIN c.fields /\ c.fields.content.type = "array"
    THEN join([i \in 1..Len(c.fields.content.items) |->
                  SegmentText(c.fields.content.items[i])], "\n")
    ELSE ""

\* initialContent (lines 215-223).
InitialContent(c) ==
    IF "content" \in DOMAIN c.fields /\ c.fields.content.type = "string"
    THEN c.fields.content.value
    ELSE IF "content" \in DOMAIN c.fields /\ c.fields.content.type = "array"
    THEN LET texts == SelectSeq(c.fields.content.items, LAMBDA seg : seg.type = "text")
         IN  join([i \in 1..Len(texts) |-> SegmentText(texts[i])], "\n")
    ELSE ""

\* FollowUpMessages that tags every tool result with the first call's id.
FollowUpMessagesFirstId(formatted, c, toolResults) ==
    formatted
    \o <<[type |-> "assistant-tool-call", role |-> "assistant",
          content |-> InitialContent(c), toolCalls |-> c.fields.tool_calls.items]>>
    \o [i \in 1..Len(toolResults) |->
           [type |-> "tool-result", role |-> "tool",
            content |-> toolResults[i].content,
            toolCallId |-> toolResults[1].toolCallId]]

\* followUpMessages (lines 226-243).
FollowUpMessages(formatted, c, toolResults) ==
    formatted
    \o <<[type |-> "assistant-tool-call", role |-> "assistant",
          content |-> InitialContent(c), toolCalls |-> c.fields.tool_calls.items]>>
    \o [i \in 1..Len(toolResults) |->
           [type |-> "tool-result", role |-> "tool",
            content |-> toolResults[i].content,
            toolCallId |-> toolResults[i].toolCallId]]

\* new Langfuse({publicKey, secretKey, baseUrl}) (utils.ts lines 11-15).
Langfuse(credentials) ==
    [type |-> "Langfuse", publicKey |-> credentials.publicKey,
     secretKey |-> credentials.secretKey, baseUrl |-> credentials.baseUrl]

\* getLangfuseClient that makes a new client when the public key is another.
getLangfuseClientPerKey(client, credentials) ==
    IF client = Null \/ client.publicKey # credentials.publicKey
    THEN Langfuse(credentials) ELSE client

\* getLangfuseClient (utils.ts lines 5-18): the singleton after the call,
\* which is also what the call returns.
getLangfuseClient(client, credentials) ==
    IF client = Null THEN Langfuse(credentials) ELSE client

\* The record of one call: its arguments, whether it constructed a client,
\* and the client it returned.
ClientCall(client, credentials) ==
    [credentials |-> credentials,
     constructed |-> getLangfuseClient(client, credentials) # client,
     returned |-> getLangfuseClient(client, credentials)]

\* The arguments of the call of sendMessageToLLM (part_001 lines 158-162).
EnvCredentials ==
    [publicKey |-> "LANGFUSE_AI_FEATURES_PUBLIC_KEY",
     secretKey |-> "LANGFUSE_AI_FEATURES_SECRET_KEY",
     baseUrl |-> "LANGFUSE_AI_FEATURES_HOST"]

\* The condition of lines 152-156.
TracingConfigured(env) == env.publicKey /\ env.secretKey /\ env.projectId

\* randomBytes(16).toString("hex")
TraceIds == {"0f0e0d0c0b0a09080706050403020100", "ffeeddccbbaa99887766554433221100"}

ParamsUserId == "user-1"
ParamsConversationId == "conversation-1"

\* TraceSinkParams that does not look at the project id.
TraceSinkParamsWithoutProject(env, history, traceId) ==
    IF env.publicKey /\ env.secretKey
    THEN Obj([environment |-> Str("LangfuseInternalTraceEnvironment.ChatAssistant"),
              traceName |-> Str("chat-assistant"),
              traceId |-> Str(traceId),
              targetProjectId |-> Str("LANGFUSE_AI_FEATURES_PROJECT_ID"),
              userId |-> Str(ParamsUserId),
              metadata |-> Obj([conversationId |-> Str(ParamsConversationId),
                                messageCount |-> [type |-> "number", num |-> Len(history)]])])
    ELSE Undefined

\* traceSinkParams (lines 151-175): undefined unless the three settings are
\* there.
TraceSinkParams(env, history, traceId) ==
    IF TracingConfigured(env)
    THEN Obj([environment |-> Str("LangfuseInternalTraceEnvironment.ChatAssistant"),
              traceName |-> Str("chat-assistant"),
              traceId |-> Str(traceId),
              targetProjectId |-> Str("LANGFUSE_AI_FEATURES_PROJECT_ID"),
              userId |-> Str(ParamsUserId),
              metadata |-> Obj([conversationId |-> Str(ParamsConversationId),
                                messageCount |-> [type |-> "number", num |-> Len(history)]])])
    ELSE Undefined

\* traceSinkParams and shouldUseLangfuseAPIKey of an invocation (lines
\* 186-187 and 253-254).
TraceArguments(sink) ==
    [traceSinkParams |-> sink, shouldUseLangfuseAPIKey |-> sink # Undefined]

\* The first invocation of fetchLLMCompletion (lines 178-190).
FirstInvocation(formatted) ==
    [messages |-> formatted, streaming |-> FALSE,
     tools |-> <<DOCUMENTATION_SEARCH_TOOL>>]

\* FinalInvocation that advertises the tool again.
FinalInvocationWithTools(followUp) ==
    [messages |-> followUp, streaming |-> FALSE,
     tools |-> <<DOCUMENTATION_SEARCH_TOOL>>]

\* The second invocation (lines 245-256): no tools.
FinalInvocation(followUp) ==
    [messages |-> followUp, streaming |-> FALSE]

\* The reply of a tool round (lines 258-270).
ToolRoundReply(finalCompletion, calls) ==
    [content |-> IF finalCompletion.type = "string" THEN finalCompletion.value
                 ELSE JSString(finalCompletion),
     toolCalls |-> calls]

\* PlainReply that answers a response of unexpected shape with an empty text.
PlainReplyEmptyOnMalformed(c) ==
    IF c.type = "string" THEN [ok |-> TRUE, reply |-> [content |-> c.value]]
    ELSE IF c.type = "object" /\ "content" \in DOMAIN c.fields
    THEN [ok |-> TRUE, reply |-> [content |-> JSString(c.fields.content)]]
    ELSE [ok |-> TRUE, reply |-> [content |-> ""]]

\* PlainReply that always fills the toolCalls field.
PlainReplyWithToolCalls(c) ==
    IF c.type = "string" THEN [ok |-> TRUE, reply |-> [content |-> c.value, toolCalls |-> <<>>]]
    ELSE IF c.type = "object" /\ "content" \in DOMAIN c.fields
    THEN [ok |-> TRUE,
          reply |-> [content |-> JSString(c.fields.content), toolCalls |-> <<>>]]
    ELSE [ok |-> FALSE,
          thrown |-> [kind |-> "TRPCError", code |-> "INTERNAL_SERVER_ERROR",
                      message |-> "Unexpected response format from LLM"]]

\* Lines 273-300: the reply to a response without tool calls, or the error
\* thrown for a response of unexpected shape.
PlainReply(c) ==
    IF c.type = "string" THEN [ok |-> TRUE, reply |-> [content |-> c.value]]
    ELSE IF c.type = "object" /\ "content" \in DOMAIN c.fields
    THEN [ok |-> TRUE, reply |-> [content |-> JSString(c.fields.content)]]
    ELSE [ok |-> FALSE,
          thrown |-> [kind |-> "TRPCError", code |-> "INTERNAL_SERVER_ERROR",
                      message |-> "Unexpected response format from LLM"]]

\* Lines 82-190: the configuration check, the message list, and the first
\* invocation of the completion service.
SendMessageToLLM ==
    /\ pc = "Idle"
    /\ xpc = "idle"
    /\ IF ~apiKeyConfigured
       THEN /\ pc' = "Failed"
            /\ error' = Rethrown([kind |-> "TRPCError", code |-> "PRECONDITION_FAILED",
                                  message |-> "Assistant LLM is not configured. Please set ASSISTANT_LLM_API_KEY in environment variables."])
            /\ UNCHANGED <<formattedMessages, llmCalls>>
            /\ UNCHANGED <<langfuseClient, clientCalls, traceParams>>
       ELSE /\ formattedMessages' = FormatMessages(messages)
            /\ IF TracingConfigured(tracingEnv)
               THEN /\ langfuseClient' = getLangfuseClient(langfuseClient, EnvCredentials)
                    /\ clientCalls' = Append(clientCalls,
                                             ClientCall(langfuseClient, EnvCredentials))
               ELSE UNCHANGED <<langfuseClient, clientCalls>>
            /\ \E traceId \in TraceIds :
                  traceParams' =
                     Append(traceParams,
                            TraceArguments(TraceSinkParams(tracingEnv, messages, traceId)))
            /\ llmCalls' = Append(llmCalls, FirstInvocation(formattedMessages'))
            /\ pc' = "AwaitingFirstCompletion"
            /\ error' = error
    /\ UNCHANGED <<apiKeyConfigured, docsFile, messages, completion, toolCalls, xpc,
                   xcalls, xi, results, toolBatches, searchLog, reply>>
    /\ UNCHANGED routerVars
    /\ UNCHANGED searchVars
    /\ UNCHANGED <<indexerVars, scorerVars, tracingEnv, chatVars>>

\* The first invocation throws.
FirstCompletionFails ==
    /\ pc = "AwaitingFirstCompletion"
    /\ \E m \in ModelErrors :
          error' = Rethrown([kind |-> "Error", message |-> m])
    /\ pc' = "Failed"
    /\ UNCHANGED <<apiKeyConfigured, docsFile, messages, formattedMessages, completion,
                   toolCalls, xpc, xcalls, xi, results, llmCalls, toolBatches,
                   searchLog, reply>>
    /\ UNCHANGED routerVars
    /\ UNCHANGED searchVars
    /\ UNCHANGED <<indexerVars, scorerVars, tracingVars, chatVars>>

\* The first invocation returns c (lines 192-212 and 273-300): with tool calls,
\* executeToolCalls is called; without, the run ends.
FirstCompletionReturns ==
    /\ pc = "AwaitingFirstCompletion"
    /\ \E c \in FirstCompletions :
          /\ completion' = c
          /\ IF HasToolCalls(c)
             THEN /\ toolCalls' = ExtractToolCalls(c)
                  /\ xcalls' = toolCalls'
                  /\ xpc' = "loop"
                  /\ xi' = 0
                  /\ results' = <<>>
                  /\ toolBatches' = toolBatches + 1
                  /\ pc' = "ToolRound"
                  /\ UNCHANGED <<reply, error>>
             ELSE /\ UNCHANGED <<toolCalls, xcalls, xpc, xi, results, toolBatches>>
                  /\ IF PlainReply(c).ok
                     THEN /\ reply' = PlainReply(c).reply
                          /\ pc' = "Done"
                          /\ error' = error
                     ELSE /\ error' = Rethrown(PlainReply(c).thrown)
                          /\ pc' = "Failed"
                          /\ reply' = reply
    /\ UNCHANGED <<apiKeyConfigured, docsFile, messages, formattedMessages, llmCalls,
                   searchLog>>
    /\ UNCHANGED routerVars
    /\ UNCHANGED searchVars
    /\ UNCHANGED <<indexerVars, scorerVars, tracingVars, chatVars>>

(***************************************************************************)
(* executeToolCalls (lines 340-412): one iteration of the loop per step,   *)
(* each awaiting its search.                                               *)
(***************************************************************************)
\* ExecuteToolCall with the error of a failed call kept for the calls after it.
ExecuteToolCallFailureLeaks ==
    /\ xpc = "loop"
    /\ xi < Len(xcalls)
    /\ LET body == LoopBody(xcalls[xi + 1], docsFile)
           leaked == /\ Len(results) > 0
                     /\ startsWith(results[Len(results)].content, "Error executing tool: ")
       IN  /\ results' = IF leaked
                         THEN Append(results,
                                     [toolCallId |-> xcalls[xi + 1].id,
                                      content |-> results[Len(results)].content])
                         ELSE results \o body.pushes
           /\ searchLog' = searchLog \o body.searches
    /\ xi' = xi + 1
    /\ UNCHANGED <<apiKeyConfigured, docsFile, messages, pc, formattedMessages,
                   completion, toolCalls, xpc, xcalls, llmCalls, toolBatches, reply,
                   error>>
    /\ UNCHANGED routerVars
    /\ UNCHANGED searchVars
    /\ UNCHANGED <<indexerVars, scorerVars, tracingVars, chatVars>>

\* ExecuteToolCall whose failed call is never settled: the loop waits on it.
ExecuteToolCallWaitsOnFailure ==
    /\ xpc = "loop"
    /\ xi < Len(xcalls)
    /\ LET body == LoopBody(xcalls[xi + 1], docsFile)
       IN  /\ \A i \in 1..Len(body.pushes) : ~startsWith(body.pushes[i].content, "Error")
           /\ results' = results \o body.pushes
           /\ searchLog' = searchLog \o body.searches
    /\ xi' = xi + 1
    /\ UNCHANGED <<apiKeyConfigured, docsFile, messages, pc, formattedMessages,
                   completion, toolCalls, xpc, xcalls, llmCalls, toolBatches, reply,
                   error>>
    /\ UNCHANGED routerVars
    /\ UNCHANGED searchVars
    /\ UNCHANGED <<indexerVars, scorerVars, tracingVars, chatVars>>

\* ExecuteToolCall whose failed call ends the run instead of being reported.
ExecuteToolCallFailureEndsRun ==
    /\ xpc = "loop"
    /\ xi < Len(xcalls)
    /\ LET body == LoopBody(xcalls[xi + 1], docsFile)
           failed == startsWith(body.pushes[1].content, "Error")
       IN  /\ results' = results \o body.pushes
           /\ searchLog' = searchLog \o body.searches
           /\ pc' = IF failed /\ pc = "ToolRound" THEN "Failed" ELSE pc
           /\ xpc' = IF failed /\ pc = "ToolRound" THEN "thrown" ELSE xpc
           /\ error' = IF failed /\ pc = "ToolRound"
                       THEN Rethrown([kind |-> "Error",
                                      message |-> body.pushes[1].content])
                       ELSE error
    /\ xi' = xi + 1
    /\ UNCHANGED <<apiKeyConfigured, docsFile, messages, formattedMessages,
                   completion, toolCalls, xcalls, llmCalls, toolBatches, reply>>
    /\ UNCHANGED routerVars
    /\ UNCHANGED searchVars
    /\ UNCHANGED <<indexerVars, scorerVars, tracingVars, chatVars>>

\* ExecuteToolCall that also starts the search of the call after this one.
ExecuteToolCallStartsNextSearch ==
    /\ xpc = "loop"
    /\ xi < Len(xcalls)
    /\ LET body == LoopBody(xcalls[xi + 1], docsFile)
           ahead == IF xi + 1 < Len(xcalls)
                    THEN LoopBody(xcalls[xi + 2], docsFile).searches
                    ELSE <<>>
       IN  /\ results' = results \o body.pushes
           /\ searchLog' = searchLog \o body.searches \o ahead
    /\ xi' = xi + 1
    /\ UNCHANGED <<apiKeyConfigured, docsFile, messages, pc, formattedMessages,
                   completion, toolCalls, xpc, xcalls, llmCalls, toolBatches, reply,
                   error>>
    /\ UNCHANGED routerVars
    /\ UNCHANGED searchVars
    /\ UNCHANGED <<indexerVars, scorerVars, tracingVars, chatVars>>

ExecuteToolCall ==
    /\ xpc = "loop"
    /\ xi < Len(xcalls)
    /\ LET body == LoopBody(xcalls[xi + 1], docsFile)
       IN  /\ results' = results \o body.pushes
           /\ searchLog' = searchLog \o body.searches
    /\ xi' = xi + 1
    /\ UNCHANGED <<apiKeyConfigured, docsFile, messages, pc, formattedMessages,
                   completion, toolCalls, xpc, xcalls, llmCalls, toolBatches, reply,
                   error>>
    /\ UNCHANGED routerVars
    /\ UNCHANGED searchVars
    /\ UNCHANGED <<indexerVars, scorerVars, tracingVars, chatVars>>

\* The loop is over: return results (line 411).
ExecuteToolCallsReturns ==
    /\ xpc = "loop"
    /\ xi = Len(xcalls)
    /\ xpc' = "returned"
    /\ UNCHANGED <<apiKeyConfigured, docsFile, messages, pc, formattedMessages,
                   completion, toolCalls, xcalls, xi, results, llmCalls, toolBatches,
                   searchLog, reply, error>>
    /\ UNCHANGED routerVars
    /\ UNCHANGED searchVars
    /\ UNCHANGED <<indexerVars, scorerVars, tracingVars, chatVars>>

\* SendFollowUp that does not await executeToolCalls.
SendFollowUpWithoutAwait ==
    /\ pc = "ToolRound"
    /\ xpc \in {"loop", "returned"}
    /\ llmCalls' = Append(llmCalls,
                          FinalInvocation(FollowUpMessages(formattedMessages, completion,
                                                           results)))
    /\ traceParams' = Append(traceParams, traceParams[1])
    /\ pc' = "AwaitingFinalCompletion"
    /\ UNCHANGED <<apiKeyConfigured, docsFile, messages, formattedMessages, completion,
                   toolCalls, xpc, xcalls, xi, results, toolBatches, searchLog, reply,
                   error>>
    /\ UNCHANGED routerVars
    /\ UNCHANGED searchVars
    /\ UNCHANGED <<indexerVars, scorerVars, tracingEnv, langfuseClient, clientCalls,
                   chatVars>>

\* SendFollowUp that pushes the assistant's tool-call message onto
\* params.messages.
SendFollowUpPushesToHistory ==
    /\ pc = "ToolRound"
    /\ xpc = "returned"
    /\ llmCalls' = Append(llmCalls,
                          FinalInvocation(FollowUpMessages(formattedMessages, completion,
                                                           results)))
    /\ messages' = Append(messages, [sender |-> "assistant",
                                     content |-> InitialContent(completion)])
    /\ traceParams' = Append(traceParams, traceParams[1])
    /\ pc' = "AwaitingFinalCompletion"
    /\ UNCHANGED <<apiKeyConfigured, docsFile, formattedMessages, completion,
                   toolCalls, xpc, xcalls, xi, results, toolBatches, searchLog, reply,
                   error>>
    /\ UNCHANGED routerVars
    /\ UNCHANGED searchVars
    /\ UNCHANGED <<indexerVars, scorerVars, tracingEnv, langfuseClient, clientCalls,
                   chatVars>>

\* Lines 214-256: the follow-up message list and the second invocation.
SendFollowUp ==
    /\ pc = "ToolRound"
    /\ xpc = "returned"
    /\ llmCalls' = Append(llmCalls,
                          FinalInvocation(FollowUpMessages(formattedMessages, completion,
                                                           results)))
    /\ traceParams' = Append(traceParams, traceParams[1])
    /\ pc' = "AwaitingFinalCompletion"
    /\ UNCHANGED <<apiKeyConfigured, docsFile, messages, formattedMessages, completion,
                   toolCalls, xpc, xcalls, xi, results, toolBatches, searchLog, reply,
                   error>>
    /\ UNCHANGED routerVars
    /\ UNCHANGED searchVars
    /\ UNCHANGED <<indexerVars, scorerVars, tracingEnv, langfuseClient, clientCalls,
                   chatVars>>

\* The second invocation throws.
FinalCompletionFails ==
    /\ pc = "AwaitingFinalCompletion"
    /\ \E m \in ModelErrors :
          error' = Rethrown([kind |-> "Error", message |-> m])
    /\ pc' = "Failed"
    /\ UNCHANGED <<apiKeyConfigured, docsFile, messages, formattedMessages, completion,
                   toolCalls, xpc, xcalls, xi, results, llmCalls, toolBatches,
                   searchLog, reply>>
    /\ UNCHANGED routerVars
    /\ UNCHANGED searchVars
    /\ UNCHANGED <<indexerVars, scorerVars, tracingVars, chatVars>>

\* The second invocation returns (lines 258-270).
FinalCompletionReturns ==
    /\ pc = "AwaitingFinalCompletion"
    /\ \E c \in FinalCompletions : reply' = ToolRoundReply(c, toolCalls)
    /\ pc' = "Done"
    /\ UNCHANGED <<apiKeyConfigured, docsFile, messages, formattedMessages, completion,
                   toolCalls, xpc, xcalls, xi, results, llmCalls, toolBatches,
                   searchLog, error>>
    /\ UNCHANGED routerVars
    /\ UNCHANGED searchVars
    /\ UNCHANGED <<indexerVars, scorerVars, tracingVars, chatVars>>

Next ==
    \/ SendMessageToLLM
    \/ FirstCompletionFails
    \/ FirstCompletionReturns
    \/ ExecuteToolCall
    \/ ExecuteToolCallsReturns
    \/ SendFollowUp
    \/ FinalCompletionFails
    \/ FinalCompletionReturns

Spec == Init /\ [][Next]_vars

\* Every awaited promise settles: an invocation of the completion service
\* returns or throws, a tool call's search returns or throws, and the code
\* between two awaits runs.
Fairness ==
    /\ WF_vars(FirstCompletionFails \/ FirstCompletionReturns)
    /\ WF_vars(ExecuteToolCall)
    /\ WF_vars(ExecuteToolCallsReturns)
    /\ WF_vars(SendFollowUp)
    /\ WF_vars(FinalCompletionFails \/ FinalCompletionReturns)

\* The runs on a documentation file that cannot be read or is empty: every
\* search of such a run throws or returns the empty list.
InitLive ==
    /\ Init
    /\ docsFile.content = ""

SpecLive == InitLive /\ [][Next]_vars /\ Fairness

\* The runs under every combination of the three tracing settings, on an
\* empty documentation file.
InitTracing ==
    /\ InitRun
    /\ tracingEnv \in TracingEnvs
    /\ docsFile = [readable |-> TRUE, content |-> ""]

SpecTracing == InitTracing /\ [][Next]_vars

(***************************************************************************)
(* getLangfuseClient on its own: any sequence of calls in one process.     *)
(***************************************************************************)
MaxClientCalls == 3

Credentials ==
    [publicKey : {"pk-lf-1", "pk-lf-2"}, secretKey : {"sk-lf-1", "sk-lf-2"},
     baseUrl : {"undefined", "https://cloud.langfuse.com"}]

CallGetLangfuseClient ==
    /\ Len(clientCalls) < MaxClientCalls
    /\ \E credentials \in Credentials :
          /\ langfuseClient' = getLangfuseClient(langfuseClient, credentials)
          /\ clientCalls' = Append(clientCalls, ClientCall(langfuseClient, credentials))
    /\ UNCHANGED <<tracingEnv, traceParams>>
    /\ UNCHANGED <<orchestratorVars, routerVars, searchVars, indexerVars, scorerVars,
                   chatVars>>

InitClient ==
    /\ Init
    /\ apiKeyConfigured
    /\ docsFile.readable
    /\ docsFile.content = GuideText
    /\ messages = <<>>

NextClient == CallGetLangfuseClient

SpecClient == InitClient /\ [][NextClient]_vars

(***************************************************************************)
(* executeToolCalls on its own: called with any list of tool calls, the    *)
(* empty one included.                                                     *)
(***************************************************************************)
ToolCallLists ==
    UNION {[1..n -> {[id |-> tc.id, name |-> tc.name, arguments |-> tc.args] :
                        tc \in RawToolCalls}] : n \in 0..MaxToolCalls}

CallExecuteToolCalls ==
    /\ pc = "Idle"
    /\ xpc = "idle"
    /\ \E calls \in ToolCallLists : xcalls' = calls
    /\ xpc' = "loop"
    /\ xi' = 0
    /\ results' = <<>>
    /\ toolBatches' = toolBatches + 1
    /\ UNCHANGED <<apiKeyConfigured, docsFile, messages, pc, formattedMessages,
                   completion, toolCalls, llmCalls, searchLog, reply, error>>
    /\ UNCHANGED routerVars
    /\ UNCHANGED searchVars
    /\ UNCHANGED <<indexerVars, scorerVars, tracingVars, chatVars>>

InitExec ==
    /\ Init
    /\ apiKeyConfigured
    /\ messages = <<>>

NextExec ==
    \/ CallExecuteToolCalls
    \/ ExecuteToolCall
    \/ ExecuteToolCallsReturns

SpecExec == InitExec /\ [][NextExec]_vars

(***************************************************************************)
(* executeToolCalls with the awaited searchDocumentation seen from the     *)
(* outside: it returns one of a few lists of sections, or throws.          *)
(***************************************************************************)
RECURSIVE Repeat(_, _)
Repeat(s, n) ==
    IF n = 0 THEN ""
    ELSE IF n % 2 = 0 THEN LET half == Repeat(s, n \div 2) IN half \o half
    ELSE s \o Repeat(s, n - 1)

\* A section found whose content has n characters.
FoundSection(title, n, relevance) ==
    [section |-> title, content |-> Repeat("x", n - 1) \o "\n", relevance |-> relevance]

\* What searchDocumentation(query, 5) may return for a string query: at most
\* five sections, the most relevant first.
FoundLists ==
    {<<>>,
     <<FoundSection("Traces", 499, 230)>>,
     <<FoundSection("Traces", 500, 230)>>,
     <<FoundSection("Traces", 501, 230)>>,
     <<FoundSection("Six traces", 7, 260), FoundSection("Four", 1200, 232),
       FoundSection("Three", 1, 230), FoundSection("Two", 500, 4),
       FoundSection("One", 501, 2)>>}

\* The outcomes of the search of call: a non-string query throws on the
\* first section, or finds nothing in a file without sections.
SearchOutcomes(call) ==
    IF QueryOf(call).type = "string"
    THEN {[ok |-> TRUE, value |-> found] : found \in FoundLists}
            \cup {[ok |-> FALSE, error |-> "ENOENT: no such file or directory"]}
    ELSE {[ok |-> TRUE, value |-> <<>>],
          [ok |-> FALSE, error |-> "query.toLowerCase is not a function"]}

\* The loop body of executeToolCalls (lines 346-408) for a call whose search
\* had the outcome search.
LoopBodyOn(call, search) ==
    IF call.name = "search_documentation"
    THEN [searches |-> <<QueryOf(call)>>,
          pushes |->
             IF search.ok
             THEN <<[toolCallId |-> call.id,
                     content |-> ResultContent(QueryOf(call), search.value)]>>
             ELSE <<[toolCallId |-> call.id,
                     content |-> "Error executing tool: " \o search.error]>>]
    ELSE [searches |-> <<>>,
          pushes |-> <<[toolCallId |-> call.id,
                        content |-> "Error: Unknown tool \"" \o call.name \o "\""]>>]

\* One iteration of the loop; searchResult keeps the outcome of its search.
ExecuteToolCallOn ==
    /\ xpc = "loop"
    /\ xi < Len(xcalls)
    /\ LET call == xcalls[xi + 1]
       IN  IF call.name = "search_documentation"
           THEN \E search \in SearchOutcomes(call) :
                   /\ results' = results \o LoopBodyOn(call, search).pushes
                   /\ searchLog' = searchLog \o LoopBodyOn(call, search).searches
                   /\ searchQuery' = QueryOf(call)
                   /\ searchResult' = search
           ELSE /\ results' = results \o LoopBodyOn(call, NoReply).pushes
                /\ searchLog' = searchLog
                /\ searchQuery' = searchQuery
                /\ searchResult' = NoReply
    /\ xi' = xi + 1
    /\ UNCHANGED <<apiKeyConfigured, docsFile, messages, pc, formattedMessages,
                   completion, toolCalls, xpc, xcalls, llmCalls, toolBatches, reply,
                   error>>
    /\ UNCHANGED routerVars
    /\ UNCHANGED searchLimit
    /\ UNCHANGED <<indexerVars, scorerVars, tracingVars, chatVars>>

InitFormat ==
    /\ Init
    /\ apiKeyConfigured
    /\ docsFile.readable
    /\ docsFile.content = GuideText
    /\ messages = <<>>

NextFormat ==
    \/ CallExecuteToolCalls
    \/ ExecuteToolCallOn
    \/ ExecuteToolCallsReturns

SpecFormat == InitFormat /\ [][NextFormat]_vars

(***************************************************************************)
(* assistantRouter: the tables conversations and messages, and the         *)
(* procedures createConversation, sendMessage, getConversation and         *)
(* listConversations.  Every await of sendMessage is a step of its own, so *)
(* that concurrent calls interleave between them.  The database stamps     *)
(* each row it creates with its clock, taken to move on between any two    *)
(* inserts: the stamp of a row is the number of rows created before it,    *)
(* plus one.  The queries change nothing and are operators on the tables.  *)
(***************************************************************************)
MaxRequests == 2

Users == {"u1", "u2"}
\* What the r-th call of sendMessage may send: nothing, or "Message r".
Contents(r) == {"", "Message " \o NumberToString(r)}
LLMResponses == {"This is a mocked LLM response"}

\* The conversation ids a caller may name; the id of a conversation is its
\* place in the table, and an id beyond the table is one of no conversation.
ConversationIds == 1..MaxConversations

\* now() of the database.
Now == Len(conversations) + Len(dbMessages) + 1

NoMessage == [none |-> TRUE]

\* findUnique without the userId in its where clause.
FindConversationAnyOwner(id, userId) ==
    IF id \in 1..Len(conversations)
    THEN [found |-> TRUE, row |-> conversations[id]]
    ELSE [found |-> FALSE]

\* prisma.conversation.findUnique({where: {id, userId}}).
FindConversation(id, userId) ==
    IF id \in 1..Len(conversations) /\ conversations[id].userId = userId
    THEN [found |-> TRUE, row |-> conversations[id]]
    ELSE [found |-> FALSE]

\* The rows of a table ordered by a key, ascending, rows of equal keys in
\* table order (orderBy asc).
RECURSIVE OrderAsc(_, _)
OrderAsc(rows, key) ==
    IF rows = <<>> THEN <<>>
    ELSE LET least == CHOOSE i \in 1..Len(rows) :
                         \A j \in 1..Len(rows) :
                            \/ rows[i][key] < rows[j][key]
                            \/ rows[i][key] = rows[j][key] /\ i <= j
             rest == [k \in 1..(Len(rows) - 1) |->
                         IF k < least THEN rows[k] ELSE rows[k + 1]]
         IN  <<rows[least]>> \o OrderAsc(rest, key)

RECURSIVE Reverse(_)
Reverse(seq) ==
    IF seq = <<>> THEN <<>> ELSE Reverse(Tail(seq)) \o <<Head(seq)>>

\* orderBy desc.
OrderDesc(rows, key) == Reverse(OrderAsc(rows, key))

\* prisma.message.findMany({where: {conversationId}, orderBy: {timestamp: "asc"}}).
MessagesOfNewestFirst(conversationId) ==
    OrderDesc(SelectSeq(dbMessages, LAMBDA m : m.conversationId = conversationId),
              "timestamp")

MessagesOf(conversationId) ==
    OrderAsc(SelectSeq(dbMessages, LAMBDA m : m.conversationId = conversationId),
             "timestamp")

\* MessageHistory without the where clause: the messages of every
\* conversation.
MessageHistoryOfAllConversations(conversationId) ==
    LET rows == OrderAsc(dbMessages, "timestamp")
    IN  [i \in 1..Len(rows) |-> [sender |-> rows[i].sender, content |-> rows[i].content]]

\* The select of the history query of sendMessage: sender and content.
MessageHistory(conversationId) ==
    LET rows == MessagesOf(conversationId)
    IN  [i \in 1..Len(rows) |-> [sender |-> rows[i].sender, content |-> rows[i].content]]

\* listConversations without the where clause.
listConversationsOfAllUsers(userId) ==
    LET rows == OrderDesc(conversations, "startedAt")
    IN  [i \in 1..Len(rows) |->
            [id |-> rows[i].id, startedAt |-> rows[i].startedAt,
             count |-> Len(SelectSeq(dbMessages,
                                     LAMBDA m : m.conversationId = rows[i].id))]]

\* listConversations for the session's user: what it returns, count being
\* _count.messages.
listConversations(userId) ==
    LET rows == OrderDesc(SelectSeq(conversations, LAMBDA c : c.userId = userId),
                          "startedAt")
    IN  [i \in 1..Len(rows) |->
            [id |-> rows[i].id, startedAt |-> rows[i].startedAt,
             count |-> Len(SelectSeq(dbMessages,
                                     LAMBDA m : m.conversationId = rows[i].id))]]

NotFound == [kind |-> "TRPCError", code |-> "NOT_FOUND", message |-> "Conversation not found"]

\* getConversation for the session's user: what it returns or throws.
getConversation(userId, conversationId) ==
    LET conversation == FindConversation(conversationId, userId)
    IN  IF ~conversation.found
        THEN [ok |-> FALSE, error |-> NotFound]
        ELSE [ok |-> TRUE,
              value |-> [id |-> conversation.row.id,
                         startedAt |-> conversation.row.startedAt,
                         messages |->
                            LET rows == MessagesOf(conversationId)
                            IN  [i \in 1..Len(rows) |->
                                    [id |-> rows[i].id, sender |-> rows[i].sender,
                                     content |-> rows[i].content,
                                     timestamp |-> rows[i].timestamp]]]]

\* prisma.message.create: the row created.
NewMessage(conversationId, sender, content) ==
    [id |-> Len(dbMessages) + 1, conversationId |-> conversationId,
     sender |-> sender, content |-> content, timestamp |-> Now]

\* What sendMessageToLLM may throw to the router.
LLMFailures ==
    {Rethrown([kind |-> "Error", message |-> m]) : m \in ModelErrors}

\* createConversation for a user.
CreateConversation ==
    /\ Len(conversations) < MaxConversations
    /\ \E u \in Users :
          conversations' = Append(conversations,
                                  [id |-> Len(conversations) + 1, userId |-> u,
                                   startedAt |-> Now])
    /\ UNCHANGED <<dbMessages, requests>>
    /\ UNCHANGED orchestratorVars
    /\ UNCHANGED searchVars
    /\ UNCHANGED <<indexerVars, scorerVars, tracingVars, chatVars>>

\* The state of one call of sendMessage: its input, where it is, and its
\* local variables userMessage, messageHistory, assistantResponse and
\* assistantMessage; invocations counts its calls of sendMessageToLLM.
Request(userId, conversationId, content, state, err) ==
    [userId |-> userId, conversationId |-> conversationId, content |-> content,
     state |-> state, error |-> err,
     userMessage |-> NoMessage, messageHistory |-> <<>>,
     assistantResponse |-> "", assistantMessage |-> NoMessage,
     invocations |-> 0]

\* A call of sendMessage begins (lines 87-127): the input is validated
\* (content: z.string().min(1)), the conversation is looked up for the
\* session's user, and the user message is stored.  The lookup reads the
\* table conversations only, whose rows are never changed nor deleted, so it
\* is one step with the insert that follows it.
SendMessage ==
    /\ Len(requests) < MaxRequests
    /\ \E u \in Users, id \in ConversationIds, content \in Contents(Len(requests) + 1) :
          IF Len(content) < 1
          THEN /\ requests' = Append(requests,
                     Request(u, id, content, "rejected",
                             [kind |-> "TRPCError", code |-> "BAD_REQUEST",
                              message |-> "Too small: expected string to have >=1 characters"]))
               /\ dbMessages' = dbMessages
          ELSE IF ~FindConversation(id, u).found
          THEN /\ requests' = Append(requests,
                                     Request(u, id, content, "rejected", NotFound))
               /\ dbMessages' = dbMessages
          ELSE LET row == NewMessage(id, "user", content)
               IN  /\ dbMessages' = Append(dbMessages, row)
                   /\ requests' = Append(requests,
                         [Request(u, id, content, "stored", NoError)
                             EXCEPT !.userMessage = row])
    /\ UNCHANGED conversations
    /\ UNCHANGED orchestratorVars
    /\ UNCHANGED searchVars
    /\ UNCHANGED <<indexerVars, scorerVars, tracingVars, chatVars>>

\* The history is loaded and sendMessageToLLM is called with it (lines
\* 135-153).
LoadMessageHistory ==
    /\ \E r \in 1..Len(requests) :
          /\ requests[r].state = "stored"
          /\ requests' = [requests EXCEPT
                             ![r].messageHistory = MessageHistory(requests[r].conversationId),
                             ![r].invocations = @ + 1,
                             ![r].state = "calling"]
    /\ UNCHANGED <<conversations, dbMessages>>
    /\ UNCHANGED orchestratorVars
    /\ UNCHANGED searchVars
    /\ UNCHANGED <<indexerVars, scorerVars, tracingVars, chatVars>>

\* sendMessageToLLM returns its text.
SendMessageToLLMReturns ==
    /\ \E r \in 1..Len(requests) :
          /\ requests[r].state = "calling"
          /\ \E text \in LLMResponses :
                requests' = [requests EXCEPT ![r].assistantResponse = text,
                                             ![r].state = "answered"]
    /\ UNCHANGED <<conversations, dbMessages>>
    /\ UNCHANGED orchestratorVars
    /\ UNCHANGED searchVars
    /\ UNCHANGED <<indexerVars, scorerVars, tracingVars, chatVars>>

\* SendMessageToLLMThrows with the user message deleted again.
SendMessageToLLMThrowsRollsBack ==
    /\ \E r \in 1..Len(requests) :
          /\ requests[r].state = "calling"
          /\ \E e \in LLMFailures :
                requests' = [requests EXCEPT ![r].error = e, ![r].state = "failed"]
          /\ dbMessages' = SelectSeq(dbMessages,
                                     LAMBDA m : m.id # requests[r].userMessage.id)
    /\ UNCHANGED conversations
    /\ UNCHANGED orchestratorVars
    /\ UNCHANGED searchVars
    /\ UNCHANGED <<indexerVars, scorerVars, tracingVars, chatVars>>

\* sendMessageToLLM throws: sendMessage has no catch, the error is the
\* caller's and nothing more is stored.
SendMessageToLLMThrows ==
    /\ \E r \in 1..Len(requests) :
          /\ requests[r].state = "calling"
          /\ \E e \in LLMFailures :
                requests' = [requests EXCEPT ![r].error = e, ![r].state = "failed"]
    /\ UNCHANGED <<conversations, dbMessages>>
    /\ UNCHANGED orchestratorVars
    /\ UNCHANGED searchVars
    /\ UNCHANGED <<indexerVars, scorerVars, tracingVars, chatVars>>

\* StoreAssistantMessage that writes over the newest assistant message of
\* the conversation when there is one.
StoreAssistantMessageOverwrites ==
    /\ \E r \in 1..Len(requests) :
          /\ requests[r].state = "answered"
          /\ LET row == NewMessage(requests[r].conversationId, "assistant",
                                   requests[r].assistantResponse)
                 old == {i \in 1..Len(dbMessages) :
                            /\ dbMessages[i].conversationId = requests[r].conversationId
                            /\ dbMessages[i].sender = "assistant"}
             IN  /\ dbMessages' =
                       IF old = {} THEN Append(dbMessages, row)
                       ELSE [dbMessages EXCEPT
                                ![CHOOSE i \in old : \A j \in old : j <= i] =
                                    [row EXCEPT !.id = @ - 1]]
                 /\ requests' = [requests EXCEPT ![r].assistantMessage = row,
                                                 ![r].state = "returned"]
    /\ UNCHANGED conversations
    /\ UNCHANGED orchestratorVars
    /\ UNCHANGED searchVars
    /\ UNCHANGED <<indexerVars, scorerVars, tracingVars, chatVars>>

\* The assistant message is stored and sendMessage returns both messages
\* (lines 156-184).
StoreAssistantMessage ==
    /\ \E r \in 1..Len(requests) :
          /\ requests[r].state = "answered"
          /\ LET row == NewMessage(requests[r].conversationId, "assistant",
                                   requests[r].assistantResponse)
             IN  /\ dbMessages' = Append(dbMessages, row)
                 /\ requests' = [requests EXCEPT ![r].assistantMessage = row,
                                                 ![r].state = "returned"]
    /\ UNCHANGED conversations
    /\ UNCHANGED orchestratorVars
    /\ UNCHANGED searchVars
    /\ UNCHANGED <<indexerVars, scorerVars, tracingVars, chatVars>>

InitRouter ==
    /\ Init
    /\ apiKeyConfigured
    /\ docsFile.readable
    /\ docsFile.content = GuideText
    /\ messages = <<>>

NextRouter ==
    \/ CreateConversation
    \/ SendMessage
    \/ LoadMessageHistory
    \/ SendMessageToLLMReturns
    \/ SendMessageToLLMThrows
    \/ StoreAssistantMessage

SpecRouter == InitRouter /\ [][NextRouter]_vars

\* What sendMessageToLLM of part_001 returns (lines 267-270 and 300): the
\* reply of a run without a tool round, and that of a run with one.
SendMessageResults ==
    {PlainReply(Str("This is a mocked LLM response")).reply,
     ToolRoundReply(Str("Final answer."),
                    <<[id |-> "t1", name |-> "search_documentation",
                       arguments |-> [query |-> Str("traces")]]>>)}

\* sendMessageToLLM of part_001 returns its result to sendMessage (line 148).
SendMessageToLLMReturnsResult ==
    /\ \E r \in 1..Len(requests) :
          /\ requests[r].state = "calling"
          /\ \E result \in SendMessageResults :
                requests' = [requests EXCEPT ![r].assistantResponse = result,
                                             ![r].state = "answered"]
    /\ UNCHANGED <<conversations, dbMessages>>
    /\ UNCHANGED orchestratorVars
    /\ UNCHANGED searchVars
    /\ UNCHANGED <<indexerVars, scorerVars, tracingVars, chatVars>>

\* sendMessage over the orchestrator that returns {content, toolCalls}.
NextStore ==
    \/ CreateConversation
    \/ SendMessage
    \/ LoadMessageHistory
    \/ SendMessageToLLMReturnsResult
    \/ SendMessageToLLMThrows
    \/ StoreAssistantMessage

SpecStore == InitRouter /\ [][NextStore]_vars

(***************************************************************************)
(* ChatView and ChatInput: the chat of the assistant page for the session's*)
(* user, over the tables of the router.  The page keeps one ChatView       *)
(* mounted and changes its prop conversationId when a conversation of the  *)
(* sidebar is selected.  The callbacks of useMutation are those of the     *)
(* latest render: onSuccess and onError read the prop as it is when the    *)
(* mutation settles, and onMutate's variables are those of the call.       *)
(***************************************************************************)
MaxMutations == 2

SessionUser == "u1"

\* What the user may type into the textarea: nothing, blanks, and a text
\* with and without blanks around it.
TypedMessages == {"", " \n", "Hi", " Hi \n"}

\* isLoading of the query is over and a conversation is selected: the
\* messages and the ChatInput are rendered (ChatView.tsx lines 108-166).
InputRendered ==
    /\ selectedConversationId # NoConversation
    /\ queryCache[selectedConversationId] # Undefined

\* The sidebar: a conversation of the session's user is selected.
SelectConversation ==
    /\ \E i \in 1..Len(listConversations(SessionUser)) :
          selectedConversationId' = listConversations(SessionUser)[i].id
    /\ UNCHANGED <<isWaitingForResponse, message, queryCache, invalidated, mutations>>
    /\ UNCHANGED <<orchestratorVars, routerVars, searchVars, indexerVars, scorerVars,
                   tracingVars>>

\* useQuery of getConversation (lines 21-25) fetches the selected
\* conversation when it has no data or was invalidated.
FetchConversation ==
    /\ selectedConversationId # NoConversation
    /\ \/ queryCache[selectedConversationId] = Undefined
       \/ selectedConversationId \in invalidated
    /\ queryCache' =
          [queryCache EXCEPT ![selectedConversationId] =
              getConversation(SessionUser, selectedConversationId).value]
    /\ invalidated' = invalidated \ {selectedConversationId}
    /\ UNCHANGED <<selectedConversationId, isWaitingForResponse, message, mutations>>
    /\ UNCHANGED <<orchestratorVars, routerVars, searchVars, indexerVars, scorerVars,
                   tracingVars>>

\* onChange of the textarea (ChatInput.tsx line 55), which is disabled
\* while disabled is set (line 59).
SetMessage ==
    /\ InputRendered
    /\ ~isWaitingForResponse
    /\ \E text \in TypedMessages \ {message} : message' = text
    /\ UNCHANGED <<selectedConversationId, isWaitingForResponse, queryCache,
                   invalidated, mutations>>
    /\ UNCHANGED <<orchestratorVars, routerVars, searchVars, indexerVars, scorerVars,
                   tracingVars>>

\* A mutation as mutate() creates it, before onMutate has returned.
Mutation(conversationId, content) ==
    [variables |-> [conversationId |-> conversationId, content |-> content],
     context |-> Undefined, status |-> "onMutate"]

\* HandleSend whose onMutate does not set isWaitingForResponse.
HandleSendWithoutWaiting ==
    /\ InputRendered
    /\ ~(trim(message) = "" \/ isWaitingForResponse)
    /\ ~(selectedConversationId = NoConversation \/ trim(message) = "")
    /\ Len(mutations) < MaxMutations
    /\ mutations' = Append(mutations, Mutation(selectedConversationId, trim(message)))
    /\ isWaitingForResponse' = isWaitingForResponse
    /\ invalidated' = invalidated \ {selectedConversationId}
    /\ message' = ""
    /\ UNCHANGED <<selectedConversationId, queryCache>>
    /\ UNCHANGED <<orchestratorVars, routerVars, searchVars, indexerVars, scorerVars,
                   tracingVars>>

\* Enter or the send button: handleSend of ChatInput (lines 22-32) calls
\* handleSendMessage of ChatView (lines 98-105), which calls mutate;
\* onMutate runs up to its await (lines 30-35): it sets isWaitingForResponse
\* and cancels the refetch of the conversation.
HandleSend ==
    /\ InputRendered
    /\ ~(trim(message) = "" \/ isWaitingForResponse)
    /\ ~(selectedConversationId = NoConversation \/ trim(message) = "")
    /\ Len(mutations) < MaxMutations
    /\ mutations' = Append(mutations, Mutation(selectedConversationId, trim(message)))
    /\ isWaitingForResponse' = TRUE
    /\ invalidated' = invalidated \ {selectedConversationId}
    /\ message' = ""
    /\ UNCHANGED <<selectedConversationId, queryCache>>
    /\ UNCHANGED <<orchestratorVars, routerVars, searchVars, indexerVars, scorerVars,
                   tracingVars>>

\* The message onMutate adds to the cached conversation (lines 51-57).
OptimisticMessage(content) ==
    [id |-> "temp-" \o NumberToString(Now), sender |-> "user", content |-> content,
     timestamp |-> Now, metadata |-> Null]

\* The updater of setData in onMutate (lines 45-60).
OptimisticUpdate(old, content) ==
    IF old = Undefined THEN old
    ELSE [old EXCEPT !.messages = Append(@, OptimisticMessage(content))]

\* onMutate after its await (lines 37-63): the snapshot, the optimistic
\* update and the context; then the request is sent.
OnMutate ==
    /\ \E i \in 1..Len(mutations) :
          /\ mutations[i].status = "onMutate"
          /\ LET key == mutations[i].variables.conversationId
                 previousConversation == queryCache[key]
             IN  /\ queryCache' =
                       [queryCache EXCEPT ![key] =
                           OptimisticUpdate(@, mutations[i].variables.content)]
                 /\ mutations' =
                       [mutations EXCEPT
                           ![i].context = [previousConversation |-> previousConversation],
                           ![i].status = "pending"]
    /\ UNCHANGED <<selectedConversationId, isWaitingForResponse, message, invalidated>>
    /\ UNCHANGED <<orchestratorVars, routerVars, searchVars, indexerVars, scorerVars,
                   tracingVars>>

\* The request succeeds: the server has stored the user message and the
\* assistant's; onSuccess (lines 65-73) invalidates the query of the
\* conversation of the prop.
OnSuccess ==
    /\ \E i \in 1..Len(mutations) :
          /\ mutations[i].status = "pending"
          /\ LET input == mutations[i].variables
                 userMessage == NewMessage(input.conversationId, "user", input.content)
                 assistantMessage ==
                     [id |-> userMessage.id + 1, conversationId |-> input.conversationId,
                      sender |-> "assistant",
                      content |-> "This is a mocked LLM response",
                      timestamp |-> userMessage.timestamp + 1]
             IN  dbMessages' = dbMessages \o <<userMessage, assistantMessage>>
          /\ mutations' = [mutations EXCEPT ![i].status = "success"]
    /\ invalidated' = invalidated \cup {selectedConversationId}
    /\ isWaitingForResponse' = FALSE
    /\ UNCHANGED <<selectedConversationId, message, queryCache>>
    /\ UNCHANGED <<conversations, requests>>
    /\ UNCHANGED <<orchestratorVars, searchVars, indexerVars, scorerVars, tracingVars>>

\* The request fails, before or after the server stored the user message
\* (sendMessage has no catch); onError (lines 74-83) writes the snapshot
\* of the context to the conversation of the prop.
OnError ==
    /\ \E i \in 1..Len(mutations) :
          /\ mutations[i].status = "pending"
          /\ \E stored \in BOOLEAN :
                dbMessages' =
                    IF stored
                    THEN Append(dbMessages,
                                NewMessage(mutations[i].variables.conversationId, "user",
                                           mutations[i].variables.content))
                    ELSE dbMessages
          /\ queryCache' =
                IF mutations[i].context.previousConversation # Undefined
                THEN [queryCache EXCEPT ![selectedConversationId] =
                         mutations[i].context.previousConversation]
                ELSE queryCache
          /\ mutations' = [mutations EXCEPT ![i].status = "error"]
    /\ isWaitingForResponse' = FALSE
    /\ UNCHANGED <<selectedConversationId, message, invalidated>>
    /\ UNCHANGED <<conversations, requests>>
    /\ UNCHANGED <<orchestratorVars, searchVars, indexerVars, scorerVars, tracingVars>>

InitChat == InitRouter

\* The conversations of the sidebar are created before the first message is
\* sent.
NextChat ==
    \/ CreateConversation /\ mutations = <<>>
    \/ SelectConversation
    \/ FetchConversation
    \/ SetMessage
    \/ HandleSend
    \/ OnMutate
    \/ OnSuccess
    \/ OnError

SpecChat == InitChat /\ [][NextChat]_vars

(***************************************************************************)
(* searchDocumentation on its own: called once with any query and limit on *)
(* any documentation file.  A limit is a number of results, 0 or more.     *)
(***************************************************************************)
MaxLimit == 3

\* A file of five sections, three of which score the same for "trace".
TiesText ==
    "## Alpha\ntrace\n## Beta\ntrace trace\n## Gamma\ntrace\n## Delta\nother\n## Epsilon\ntrace\n"

\* A file with a section titled in the British spelling and another whose
\* body has the American one.
SpellingText ==
    "## Analyse\nHow to look at data.\n## Other\nWe analyze data.\n"

SearchDocsFiles ==
    {[readable |-> FALSE, content |-> ""],
     [readable |-> TRUE, content |-> ""],
     [readable |-> TRUE, content |-> "No section here.\n"],
     [readable |-> TRUE, content |-> TiesText],
     [readable |-> TRUE, content |-> SpellingText],
     [readable |-> TRUE, content |-> GuideText]}

SearchQueries ==
    {"", "trace", "Beta", "the trace", "create project", "other alpha", "zzz", "(",
     "the a is", "analyse"}

SearchLimits == 0..MaxLimit

InitSearch ==
    /\ apiKeyConfigured = TRUE
    /\ docsFile \in SearchDocsFiles
    /\ messages = <<>>
    /\ pc = "Idle"
    /\ formattedMessages = <<>>
    /\ completion = Undefined
    /\ toolCalls = <<>>
    /\ xpc = "idle"
    /\ xcalls = <<>>
    /\ xi = 0
    /\ results = <<>>
    /\ llmCalls = <<>>
    /\ toolBatches = 0
    /\ searchLog = <<>>
    /\ reply = NoReply
    /\ error = NoError
    /\ conversations = <<>>
    /\ dbMessages = <<>>
    /\ requests = <<>>
    /\ searchQuery \in {Str(q) : q \in SearchQueries}
    /\ searchLimit \in SearchLimits
    /\ searchResult = NoReply
    /\ indexedMarkdown = ""
    /\ indexedSections = NoReply
    /\ scoredQuery = Str("")
    /\ scoredContent = ""
    /\ scoredTitle = ""
    /\ scoredRelevance = NoReply
    /\ tracingEnv = TracingOff
    /\ langfuseClient = Null
    /\ clientCalls = <<>>
    /\ traceParams = <<>>
    /\ selectedConversationId = NoConversation
    /\ isWaitingForResponse = FALSE
    /\ message = ""
    /\ queryCache = [id \in 1..MaxConversations |-> Undefined]
    /\ invalidated = {}
    /\ mutations = <<>>

\* searchDocumentation(searchQuery, searchLimit) returns or throws.
CallSearchDocumentation ==
    /\ searchResult = NoReply
    /\ searchResult' = searchDocumentation(searchQuery, searchLimit, docsFile)
    /\ UNCHANGED <<searchQuery, searchLimit>>
    /\ UNCHANGED orchestratorVars
    /\ UNCHANGED routerVars
    /\ UNCHANGED <<indexerVars, scorerVars, tracingVars, chatVars>>

NextSearch ==
    \/ CallSearchDocumentation

SpecSearch == InitSearch /\ [][NextSearch]_vars

(***************************************************************************)
(* splitIntoSections on its own: called once on any document of up to      *)
(* MaxLines lines.                                                         *)
(***************************************************************************)
MaxLines == 3

\* The lines a document is made of: markers, near-markers and text.
DocumentLines ==
    {"", "## A", "##  B c ", "text", "### sub", " ## x", "##"}

Documents ==
    {join(lines, "\n") : lines \in UNION {[1..n -> DocumentLines] : n \in 0..MaxLines}}

InitIndexer ==
    /\ Init
    /\ apiKeyConfigured
    /\ docsFile.readable
    /\ docsFile.content = GuideText
    /\ messages = <<>>

\* The arguments of the call are chosen.
ChooseMarkdown ==
    /\ indexedSections = NoReply
    /\ indexedMarkdown = ""
    /\ \E document \in Documents \ {""} : indexedMarkdown' = document
    /\ indexedSections' = indexedSections
    /\ UNCHANGED <<orchestratorVars, routerVars, searchVars, scorerVars, tracingVars,
                   chatVars>>

\* splitIntoSections(indexedMarkdown) returns.
CallSplitIntoSections ==
    /\ indexedSections = NoReply
    /\ indexedSections' = [value |-> splitIntoSections(indexedMarkdown)]
    /\ indexedMarkdown' = indexedMarkdown
    /\ UNCHANGED <<orchestratorVars, routerVars, searchVars, scorerVars, tracingVars,
                   chatVars>>

NextIndexer ==
    \/ ChooseMarkdown
    \/ CallSplitIntoSections

SpecIndexer == InitIndexer /\ [][NextIndexer]_vars

(***************************************************************************)
(* calculateRelevance on its own: called once on any query, content and    *)
(* title.  The queries keep to the pattern syntax RegExpMatchCount models. *)
(***************************************************************************)
ScoredQueries ==
    {"", "trace", "Trace", "a.c", "(", "the a is", "analyse", "create trace",
     "first trace run", "ab"}

ScoredTitles == {"Trace", "Getting Started", "abc a.c", "Analyse"}

ScoredContents ==
    {"", "trace trace\n", "We analyze abc.\n", "a.c abc first trace run\n"}

InitScorer ==
    /\ Init
    /\ apiKeyConfigured
    /\ docsFile.readable
    /\ docsFile.content = GuideText
    /\ messages = <<>>

\* The arguments of the call are chosen.
ChooseScored ==
    /\ scoredRelevance = NoReply
    /\ scoredQuery = Str("")
    /\ scoredContent = ""
    /\ scoredTitle = ""
    /\ \E q \in ScoredQueries, c \in ScoredContents, t \in ScoredTitles :
          /\ scoredQuery' = Str(q)
          /\ scoredContent' = c
          /\ scoredTitle' = t
    /\ scoredRelevance' = scoredRelevance
    /\ UNCHANGED <<orchestratorVars, routerVars, searchVars, indexerVars, tracingVars,
                   chatVars>>

\* calculateRelevance(scoredQuery, scoredContent, scoredTitle) returns or
\* throws.
CallCalculateRelevance ==
    /\ scoredRelevance = NoReply
    /\ scoredRelevance' = calculateRelevance(scoredQuery, scoredContent, scoredTitle)
    /\ UNCHANGED <<scoredQuery, scoredContent, scoredTitle>>
    /\ UNCHANGED <<orchestratorVars, routerVars, searchVars, indexerVars, tracingVars,
                   chatVars>>

NextScorer ==
    \/ ChooseScored
    \/ CallCalculateRelevance

SpecScorer == InitScorer /\ [][NextScorer]_vars

(***************************************************************************)
(* Properties.                                                             *)
(***************************************************************************)
\* The first response carries a non-empty list of tool calls.
ResponseHasCalls(c) ==
    /\ c.type = "object"
    /\ "tool_calls" \in DOMAIN c.fields
    /\ c.fields.tool_calls.type = "array"
    /\ c.fields.tool_calls.items # <<>>

\* The first response carries no tool calls and is text or has a content.
ResponseIsPlain(c) ==
    /\ ~ResponseHasCalls(c)
    /\ \/ c.type = "string"
       \/ c.type = "object" /\ "content" \in DOMAIN c.fields

\* The first response has a tool_calls field that is an empty list.
ResponseHasEmptyCallList(c) ==
    /\ c.type = "object"
    /\ "tool_calls" \in DOMAIN c.fields
    /\ c.fields.tool_calls.type = "array"
    /\ c.fields.tool_calls.items = <<>>

FirstResponseReceived == pc \in {"ToolRound", "AwaitingFinalCompletion", "Done", "Failed"}

\* C1: when the first response (text, or an object with a content) carries no
\* tool calls, the run ends Done after exactly one model invocation, without
\* any tool execution, and its reply has the field content and no field
\* toolCalls.
C1_NoToolCallsOneInvocation ==
    (FirstResponseReceived /\ ResponseIsPlain(completion)) =>
        /\ pc = "Done"
        /\ Len(llmCalls) = 1
        /\ toolBatches = 0
        /\ DOMAIN reply = {"content"}
        /\ completion.type = "string" => reply.content = completion.value

C1_Witness ==
    /\ pc = "Done"
    /\ ResponseIsPlain(completion)
    /\ completion.type = "object"
    /\ Len(messages) = 2

\* C2: when the first response carries a non-empty tool-call list and the
\* run ends Done, exactly two model invocations were made and the reply's
\* toolCalls is that list, in order, with each id, name and arguments.
C2_ToolCallsTwoInvocationsVerbatim ==
    (pc = "Done" /\ ResponseHasCalls(completion)) =>
        /\ Len(llmCalls) = 2
        /\ "toolCalls" \in DOMAIN reply
        /\ Len(reply.toolCalls) = Len(completion.fields.tool_calls.items)
        /\ \A i \in 1..Len(reply.toolCalls) :
              /\ reply.toolCalls[i].id = completion.fields.tool_calls.items[i].id
              /\ reply.toolCalls[i].name = completion.fields.tool_calls.items[i].name
              /\ reply.toolCalls[i].arguments = completion.fields.tool_calls.items[i].args

C2_Witness ==
    /\ pc = "Done"
    /\ ResponseHasCalls(completion)
    /\ Len(reply.toolCalls) = 2
    /\ reply.toolCalls[1].id = "t3"
    /\ reply.toolCalls[2].id = "t1"

\* C3: in a Done run the reply has a toolCalls field exactly when
\* executeToolCalls was called, the field is then non-empty, and a first
\* response with an empty tool_calls list gives a reply without the field and
\* no tool execution.
C3_ToolCallsFieldIffToolRound ==
    pc = "Done" =>
        /\ ("toolCalls" \in DOMAIN reply) <=> (toolBatches > 0)
        /\ ("toolCalls" \in DOMAIN reply) => reply.toolCalls # <<>>
        /\ ResponseHasEmptyCallList(completion) =>
              /\ "toolCalls" \notin DOMAIN reply
              /\ toolBatches = 0
              /\ xi = 0
              /\ results = <<>>
              /\ searchLog = <<>>

C3_Witness ==
    /\ pc = "Done"
    /\ ResponseHasEmptyCallList(completion)
    /\ "toolCalls" \notin DOMAIN reply

\* C4: a run makes at most two model invocations and at most one call of
\* executeToolCalls; the first invocation advertises the tool, the second
\* advertises none, and a run whose second response carries tool calls ends
\* Done with the tool calls of the first response.
C4_OneToolRound ==
    /\ Len(llmCalls) <= 2
    /\ toolBatches <= 1
    /\ Len(llmCalls) >= 1 => "tools" \in DOMAIN llmCalls[1]
    /\ Len(llmCalls) = 2 => "tools" \notin DOMAIN llmCalls[2]
    /\ (pc = "Done" /\ Len(llmCalls) = 2) =>
          /\ toolBatches = 1
          /\ xi = Len(toolCalls)
          /\ reply.toolCalls = toolCalls

C4_Witness ==
    /\ pc = "Done"
    /\ Len(llmCalls) = 2
    /\ reply.content = "[object Object]"
    /\ toolBatches = 1

\* The search of this call throws on the documentation file of the state.
SearchThrows(call) ==
    /\ call.name = "search_documentation"
    /\ ~searchDocumentation(QueryOf(call), 5, docsFile).ok

\* C5: when executeToolCalls returns, it returns one result per call, the
\* i-th with the id of the i-th call, also when searches threw; during the
\* loop there is one result per call gone through.
C5_OneResultPerCall ==
    /\ xpc = "loop" => Len(results) = xi
    /\ xpc = "returned" =>
          /\ Len(results) = Len(xcalls)
          /\ \A i \in 1..Len(xcalls) : results[i].toolCallId = xcalls[i].id

C5_Witness ==
    /\ xpc = "returned"
    /\ Len(xcalls) = 2
    /\ SearchThrows(xcalls[1])
    /\ ~SearchThrows(xcalls[2])
    /\ Len(results) = 2

\* C6: a call whose search throws gets the result "Error executing tool: ..."
\* and the loop goes on; every result is the one its call gets alone,
\* whatever the calls before it did.
C6_FailureIsolated ==
    \A i \in 1..Len(results) :
        /\ i <= Len(xcalls)
        /\ results[i] = LoopBody(xcalls[i], docsFile).pushes[1]
        /\ SearchThrows(xcalls[i]) =>
              /\ startsWith(results[i].content, "Error executing tool: ")
              /\ xpc \in {"loop", "returned"}
              /\ xi >= i

C6_Witness ==
    /\ xpc = "returned"
    /\ Len(results) = 2
    /\ SearchThrows(xcalls[1])
    /\ xcalls[2].name = "search_documentation"
    /\ startsWith(results[2].content, "Found ")

\* C7: a call of another name than search_documentation gets a result with
\* its id and "Unknown tool" in the content, and searchDocumentation is
\* called only for the calls named search_documentation.
C7_UnknownTool ==
    /\ \A i \in 1..Len(results) :
          (i <= Len(xcalls) /\ xcalls[i].name # "search_documentation") =>
              /\ results[i].toolCallId = xcalls[i].id
              /\ includes(results[i].content, "Unknown tool")
    /\ Len(searchLog) =
          Cardinality({i \in 1..xi : xcalls[i].name = "search_documentation"})

C7_Witness ==
    /\ xpc = "returned"
    /\ Len(xcalls) = 2
    /\ xcalls[1].name = "unknown_tool"
    /\ xcalls[2].name = "search_documentation"
    /\ Len(searchLog) = 1

\* C8 (as claimed): a search_documentation call whose query is missing or not
\* a string gets the result of the same call with the query "".
C8_NonStringQueryAsEmpty ==
    \A i \in 1..Len(results) :
        (/\ i <= Len(xcalls)
         /\ xcalls[i].name = "search_documentation"
         /\ QueryOf(xcalls[i]).type # "string") =>
            results[i] =
                LoopBody([xcalls[i] EXCEPT !.arguments = [query |-> Str("")]],
                         docsFile).pushes[1]

\* C9: the messages of the second invocation are those of the first, then one
\* assistant message with the model's tool calls, then one tool-result
\* message per call, tagged in order with the ids of the calls.
C9_FollowUpMessages ==
    Len(llmCalls) = 2 =>
        LET first == llmCalls[1].messages
            second == llmCalls[2].messages
            calls == completion.fields.tool_calls.items
            n == Len(first)
        IN  /\ Len(second) = n + 1 + Len(calls)
            /\ SubSeq(second, 1, n) = first
            /\ second[n + 1].type = "assistant-tool-call"
            /\ second[n + 1].role = "assistant"
            /\ second[n + 1].toolCalls = calls
            /\ \A i \in 1..Len(calls) :
                  /\ second[n + 1 + i].type = "tool-result"
                  /\ second[n + 1 + i].role = "tool"
                  /\ second[n + 1 + i].toolCallId = calls[i].id
                  /\ second[n + 1 + i].content = results[i].content

C9_Witness ==
    /\ Len(llmCalls) = 2
    /\ Len(messages) = 2
    /\ Len(completion.fields.tool_calls.items) = 2
    /\ completion.fields.tool_calls.items[1].id = "t5"
    /\ completion.fields.tool_calls.items[2].id = "t1"

\* C10: the messages of the first invocation are the system prompt and then
\* one message per history entry, in order, with the entry's content and the
\* role user for the sender "user" and assistant for any other; the one tool
\* advertised is search_documentation.
C10_FirstMessages ==
    Len(llmCalls) >= 1 =>
        LET first == llmCalls[1].messages
        IN  /\ Len(first) = 1 + Len(messages)
            /\ first[1].role = "system"
            /\ first[1].content = SYSTEM_PROMPT
            /\ \A i \in 1..Len(messages) :
                  /\ first[i + 1].content = messages[i].content
                  /\ first[i + 1].role =
                        (IF messages[i].sender = "user" THEN "user" ELSE "assistant")
            /\ Len(llmCalls[1].tools) = 1
            /\ llmCalls[1].tools[1].name = "search_documentation"

C10_Witness ==
    /\ Len(llmCalls) >= 1
    /\ Len(messages) = 2
    /\ messages[1].sender = "system"
    /\ messages[2].sender = "user"

\* Whether executeToolCalls reports a failure for the call, and the error
\* text it then reports (lines 377-384 and 385-408).
ToolFailure(call) ==
    IF call.name # "search_documentation"
    THEN [failed |-> TRUE, text |-> "Error: Unknown tool \"" \o call.name \o "\""]
    ELSE LET search == searchDocumentation(QueryOf(call), 5, docsFile)
         IN  IF search.ok THEN [failed |-> FALSE]
             ELSE [failed |-> TRUE, text |-> "Error executing tool: " \o search.error]

\* C11: without an API key the run fails with PRECONDITION_FAILED before any
\* model invocation and any tool execution, without a reply, and the error
\* is the one thrown by the check, not wrapped into another.
C11_NoApiKeyPreconditionFailed ==
    ~apiKeyConfigured =>
        /\ Len(llmCalls) = 0
        /\ toolBatches = 0
        /\ Len(searchLog) = 0
        /\ pc \in {"Idle", "Failed"}
        /\ reply = NoReply
        /\ pc = "Failed" =>
              /\ error.kind = "TRPCError"
              /\ error.code = "PRECONDITION_FAILED"
              /\ "cause" \notin DOMAIN error

C11_Witness ==
    /\ ~apiKeyConfigured
    /\ pc = "Failed"
    /\ Len(messages) = 2
    /\ error.code = "PRECONDITION_FAILED"

\* C12: when the first or the second model invocation throws, the run ends
\* Failed without a reply, and the error surfaced is a TRPCError
\* INTERNAL_SERVER_ERROR whose cause is the error the invocation threw; every
\* invocation is a new one made from a run that has not failed, and there
\* are at most two, so none is made again.
C12_ModelFailureFailsRun ==
    [][/\ (FirstCompletionFails \/ FinalCompletionFails) =>
             /\ pc' = "Failed"
             /\ reply' = NoReply
             /\ llmCalls' = llmCalls
             /\ Len(llmCalls) = (IF pc = "AwaitingFirstCompletion" THEN 1 ELSE 2)
             /\ error'.kind = "TRPCError"
             /\ error'.code = "INTERNAL_SERVER_ERROR"
             /\ "cause" \in DOMAIN error'
             /\ error'.cause.kind = "Error"
             /\ error'.cause.message \in ModelErrors
             /\ error'.message =
                   "Failed to get response from LLM: " \o error'.cause.message
       /\ pc = "Failed" => llmCalls' = llmCalls /\ pc' = "Failed"
       /\ llmCalls' # llmCalls =>
             /\ pc \in {"Idle", "ToolRound"}
             /\ Len(llmCalls') = Len(llmCalls) + 1
             /\ Len(llmCalls') <= 2
             /\ SubSeq(llmCalls', 1, Len(llmCalls)) = llmCalls]_vars

C12_Witness ==
    /\ pc = "Failed"
    /\ Len(llmCalls) = 2
    /\ "cause" \in DOMAIN error
    /\ reply = NoReply

\* C13: once the tool round has begun, the run fails only by a model
\* invocation that throws: whatever the tool calls do (unknown tool, file
\* unreadable, search exception), the second invocation is made when the
\* loop is over, and it carries, as the content of the tool-result message
\* of each failed call, the error text of that call (looked at when the
\* invocation has just been made; invocations are not changed afterwards).
C13_ToolFailuresDoNotFailRun ==
    /\ (pc = "Failed" /\ toolBatches > 0) =>
          /\ Len(llmCalls) = 2
          /\ xpc = "returned"
          /\ "cause" \in DOMAIN error
          /\ error.cause.message \in ModelErrors
    /\ (pc = "Done" /\ toolBatches > 0) => Len(llmCalls) = 2 /\ xpc = "returned"
    /\ pc = "AwaitingFinalCompletion" =>
          /\ Len(llmCalls) = 2
          /\ LET second == llmCalls[2].messages
                 n == Len(llmCalls[1].messages)
             IN  /\ Len(second) = n + 1 + Len(toolCalls)
                 /\ \A i \in 1..Len(toolCalls) :
                       LET failure == ToolFailure(toolCalls[i])
                       IN  failure.failed =>
                              /\ second[n + 1 + i].type = "tool-result"
                              /\ second[n + 1 + i].toolCallId = toolCalls[i].id
                              /\ second[n + 1 + i].content = failure.text

C13_Witness ==
    /\ pc = "Done"
    /\ Len(toolCalls) = 2
    /\ toolCalls[1].name = "unknown_tool"
    /\ SearchThrows(toolCalls[2])
    /\ "toolCalls" \in DOMAIN reply

(***************************************************************************)
(* Properties of assistantRouter.                                          *)
(***************************************************************************)
\* The calls of sendMessage on a conversation that got past the checks, in
\* the order they began.
RequestsOn(conversationId) ==
    SelectSeq([r \in 1..Len(requests) |-> r],
              LAMBDA r : /\ requests[r].conversationId = conversationId
                         /\ requests[r].state # "rejected")

\* The messages a call of sendMessage has stored so far, by where it is.
StoredBy(r) ==
    CASE requests[r].state = "rejected" -> 0
      [] requests[r].state \in {"stored", "calling", "answered", "failed"} -> 1
      [] requests[r].state = "returned" -> 2

RECURSIVE SumStoredBy(_)
SumStoredBy(rs) ==
    IF rs = <<>> THEN 0 ELSE StoredBy(Head(rs)) + SumStoredBy(Tail(rs))

RowsOf(conversationId) ==
    {i \in 1..Len(dbMessages) : dbMessages[i].conversationId = conversationId}

\* C14: a call of sendMessage whose sendMessageToLLM threw has stored its
\* user message and no assistant message: the conversation holds one
\* message for it, so that its messages are one per call that stored its
\* user message only and two per call that returned.
C14_FailedCallKeepsUserMessage ==
    /\ \A c \in ConversationIds :
          Cardinality(RowsOf(c)) = SumStoredBy(RequestsOn(c))
    /\ \A r \in 1..Len(requests) :
          requests[r].state = "failed" =>
              /\ requests[r].error.kind = "TRPCError"
              /\ requests[r].assistantMessage = NoMessage
              /\ \E i \in RowsOf(requests[r].conversationId) :
                    /\ dbMessages[i] = requests[r].userMessage
                    /\ dbMessages[i].sender = "user"
                    /\ dbMessages[i].content = requests[r].content

C14_Witness ==
    /\ Len(requests) = 1
    /\ requests[1].state = "failed"
    /\ Cardinality(RowsOf(requests[1].conversationId)) = 1
    /\ dbMessages[1].sender = "user"

\* The calls on a conversation were made one after the other and all
\* returned: each stored its assistant message before the next stored its
\* user message.
Sequential(conversationId) ==
    LET rs == RequestsOn(conversationId)
    IN  /\ \A k \in 1..Len(rs) : requests[rs[k]].state = "returned"
        /\ \A k \in 1..(Len(rs) - 1) :
              requests[rs[k]].assistantMessage.timestamp <
                  requests[rs[k + 1]].userMessage.timestamp

\* C15: after n calls of sendMessage on a conversation, one after the other
\* and all returned, getConversation returns 2n messages in ascending
\* timestamp order, the (2i-1)-th the user message of the i-th call with its
\* content and the 2i-th its assistant message with the text the model
\* returned to it; and a call has stored its user message before its model
\* call begins and its assistant message only after it.
C15_SequentialCallsAlternate ==
    /\ \A c \in 1..Len(conversations) :
          Sequential(c) =>
              LET rs == RequestsOn(c)
                  got == getConversation(conversations[c].userId, c)
              IN  /\ got.ok
                  /\ Len(got.value.messages) = 2 * Len(rs)
                  /\ \A k \in 1..(Len(got.value.messages) - 1) :
                        got.value.messages[k].timestamp
                            < got.value.messages[k + 1].timestamp
                  /\ \A i \in 1..Len(rs) :
                        (2 * i <= Len(got.value.messages)) =>
                            /\ got.value.messages[2 * i - 1].sender = "user"
                            /\ got.value.messages[2 * i - 1].content = requests[rs[i]].content
                            /\ got.value.messages[2 * i - 1].id = requests[rs[i]].userMessage.id
                            /\ got.value.messages[2 * i].sender = "assistant"
                            /\ got.value.messages[2 * i].content
                                  = requests[rs[i]].assistantResponse
                            /\ got.value.messages[2 * i].id
                                  = requests[rs[i]].assistantMessage.id
    /\ \A r \in 1..Len(requests) :
          /\ requests[r].invocations > 0 =>
                /\ \E i \in 1..Len(dbMessages) : dbMessages[i] = requests[r].userMessage
                /\ \E k \in 1..Len(requests[r].messageHistory) :
                      requests[r].messageHistory[k] =
                          [sender |-> "user", content |-> requests[r].content]
          /\ requests[r].state \in {"stored", "calling", "answered"} =>
                requests[r].assistantMessage = NoMessage
          /\ requests[r].state = "returned" =>
                /\ requests[r].invocations = 1
                /\ requests[r].userMessage.timestamp
                      < requests[r].assistantMessage.timestamp

C15_Witness ==
    /\ Len(conversations) >= 1
    /\ Len(RequestsOn(1)) = 2
    /\ Sequential(1)
    /\ Len(getConversation(conversations[1].userId, 1).value.messages) = 4

\* C16: when the calls of sendMessage on a conversation have all returned,
\* however their steps interleaved, the conversation holds two messages per
\* call, as many of the user as of the assistant, and each call returned a
\* user message and an assistant message that are stored, are its own (its
\* content, the text its model call returned) and are no other call's.
C16_ConcurrentCallsAllStored ==
    \A c \in 1..Len(conversations) :
        LET rs == RequestsOn(c)
        IN  (\A k \in 1..Len(rs) : requests[rs[k]].state = "returned") =>
                /\ Cardinality(RowsOf(c)) = 2 * Len(rs)
                /\ Cardinality({i \in RowsOf(c) : dbMessages[i].sender = "user"}) = Len(rs)
                /\ Cardinality({i \in RowsOf(c) : dbMessages[i].sender = "assistant"}) = Len(rs)
                /\ \A k \in 1..Len(rs) :
                      LET q == requests[rs[k]]
                      IN  /\ \E i \in RowsOf(c) : dbMessages[i] = q.userMessage
                          /\ \E i \in RowsOf(c) : dbMessages[i] = q.assistantMessage
                          /\ q.userMessage.sender = "user"
                          /\ q.userMessage.content = q.content
                          /\ q.assistantMessage.sender = "assistant"
                          /\ q.assistantMessage.content = q.assistantResponse
                          /\ \A j \in 1..Len(rs) :
                                j # k =>
                                   /\ requests[rs[j]].userMessage.id # q.userMessage.id
                                   /\ requests[rs[j]].assistantMessage.id
                                         # q.assistantMessage.id

C16_Witness ==
    /\ Len(requests) = 2
    /\ requests[1].conversationId = requests[2].conversationId
    /\ requests[1].state = "returned"
    /\ requests[2].state = "returned"
    /\ requests[1].userMessage.timestamp < requests[2].userMessage.timestamp
    /\ requests[2].userMessage.timestamp < requests[2].assistantMessage.timestamp
    /\ requests[2].assistantMessage.timestamp < requests[1].assistantMessage.timestamp

\* C17: a call of sendMessage with an empty content, or naming a
\* conversation that does not exist or is another user's, is rejected with
\* an error, stores no message and calls no model: only calls with a
\* content on a conversation of their user get past the checks, and every
\* stored message is one of theirs; getConversation on a conversation that
\* does not exist or is another user's throws NOT_FOUND and returns nothing.
C17_RejectedCallsStoreNothing ==
    /\ \A r \in 1..Len(requests) :
          LET q == requests[r]
              owned == /\ q.conversationId \in 1..Len(conversations)
                       /\ conversations[q.conversationId].userId = q.userId
          IN  /\ (q.content = "" \/ ~owned) => q.state = "rejected"
              /\ q.state = "rejected" =>
                    /\ q.error.kind = "TRPCError"
                    /\ q.content # "" => q.error.code = "NOT_FOUND"
                    /\ q.userMessage = NoMessage
                    /\ q.assistantMessage = NoMessage
                    /\ q.invocations = 0
                    /\ q.messageHistory = <<>>
    /\ \A i \in 1..Len(dbMessages) :
          \E r \in 1..Len(requests) :
             /\ requests[r].state # "rejected"
             /\ dbMessages[i] \in {requests[r].userMessage, requests[r].assistantMessage}
    /\ \A u \in Users, c \in ConversationIds :
          (c \notin 1..Len(conversations) \/ conversations[c].userId # u) =>
              /\ ~getConversation(u, c).ok
              /\ getConversation(u, c).error.code = "NOT_FOUND"
              /\ DOMAIN getConversation(u, c) = {"ok", "error"}

C17_Witness ==
    /\ Len(requests) = 2
    /\ Len(conversations) = 1
    /\ requests[1].state = "rejected"
    /\ requests[1].conversationId = 1
    /\ requests[1].userId # conversations[1].userId
    /\ requests[1].content # ""
    /\ requests[2].state = "rejected"
    /\ requests[2].content = ""
    /\ requests[2].userId = conversations[1].userId
    /\ dbMessages = <<>>

\* C18: whatever was created and sent, listConversations returns for a user
\* exactly that user's conversations, each once, the later started first,
\* each with the number of messages stored for it.
C18_ListConversations ==
    \A u \in Users :
        LET listed == listConversations(u)
        IN  /\ {listed[i].id : i \in 1..Len(listed)} =
                  {c \in 1..Len(conversations) : conversations[c].userId = u}
            /\ Len(listed) =
                  Cardinality({c \in 1..Len(conversations) : conversations[c].userId = u})
            /\ \A i \in 1..Len(listed) :
                  /\ listed[i].id \in 1..Len(conversations)
                  /\ listed[i].startedAt = conversations[listed[i].id].startedAt
                  /\ listed[i].count = Cardinality(RowsOf(listed[i].id))
            /\ \A i \in 1..(Len(listed) - 1) :
                  listed[i].startedAt >= listed[i + 1].startedAt

C18_Witness ==
    /\ Len(conversations) = 2
    /\ conversations[1].userId = "u1"
    /\ conversations[2].userId = "u1"
    /\ Len(listConversations("u1")) = 2
    /\ listConversations("u1")[1].id = 2
    /\ listConversations("u1")[1].count = 1
    /\ listConversations("u1")[2].count = 2
    /\ listConversations("u2") = <<>>

(***************************************************************************)
(* Properties of searchDocumentation.                                      *)
(***************************************************************************)
SearchReturned == "ok" \in DOMAIN searchResult /\ searchResult.ok

\* The place of a returned entry among the sections of the file.
SectionIndex(entry) ==
    LET sections == splitIntoSections(docsFile.content)
    IN  CHOOSE k \in 1..Len(sections) :
           /\ sections[k].title = entry.section
           /\ sections[k].content = entry.content

\* C19: searchDocumentation returns at most limit entries, none before an
\* entry of greater relevance, and entries of equal relevance in the order
\* of their sections in the file.
C19_AtMostLimitSortedStable ==
    SearchReturned =>
        LET found == searchResult.value
        IN  /\ Len(found) <= searchLimit
            /\ \A i \in 1..Len(found) : \A j \in (i + 1)..Len(found) :
                  /\ found[i].relevance >= found[j].relevance
                  /\ found[i].relevance = found[j].relevance =>
                        SectionIndex(found[i]) < SectionIndex(found[j])

C19_Witness ==
    /\ SearchReturned
    /\ docsFile.content = TiesText
    /\ searchLimit = 3
    /\ Len(searchResult.value) = 3
    /\ searchResult.value[1].section = "Beta"
    /\ searchResult.value[2].section = "Alpha"
    /\ searchResult.value[3].section = "Gamma"
    /\ searchResult.value[2].relevance = searchResult.value[3].relevance

\* C20: every entry searchDocumentation returns has a relevance above 0; a
\* section of relevance above 0 is returned unless limit entries of its
\* relevance or more are; and on a file without sections it returns the
\* empty list.
C20_PositiveOnlyNothingLost ==
    /\ SearchReturned =>
          LET found == searchResult.value
              sections == splitIntoSections(docsFile.content)
          IN  /\ \A i \in 1..Len(found) : found[i].relevance > 0
              /\ \A k \in 1..Len(sections) :
                    LET relevance == calculateRelevance(searchQuery, sections[k].content,
                                                        sections[k].title).value
                    IN  relevance > 0 =>
                           \/ \E i \in 1..Len(found) :
                                 /\ found[i].section = sections[k].title
                                 /\ found[i].content = sections[k].content
                                 /\ found[i].relevance = relevance
                           \/ /\ Len(found) = searchLimit
                              /\ \A i \in 1..Len(found) : found[i].relevance >= relevance
    /\ (/\ searchResult # NoReply
        /\ docsFile.readable
        /\ splitIntoSections(docsFile.content) = <<>>) =>
          /\ SearchReturned
          /\ searchResult.value = <<>>

C20_Witness ==
    /\ SearchReturned
    /\ docsFile.content = TiesText
    /\ searchQuery = Str("trace")
    /\ searchLimit = 2
    /\ Len(searchResult.value) = 2
    /\ searchResult.value[2].section = "Alpha"

(***************************************************************************)
(* Properties of splitIntoSections.                                        *)
(***************************************************************************)
\* The lines of the document, and the places of its marker lines in order.
IndexedLines == splitLines(indexedMarkdown)

MarkerPlaces ==
    SelectSeq([i \in 1..Len(IndexedLines) |-> i],
              LAMBDA i : startsWith(IndexedLines[i], "## "))

\* The lines from place a to place b, each followed by a line break.
RECURSIVE LinesFromTo(_, _)
LinesFromTo(a, b) ==
    IF a > b THEN "" ELSE IndexedLines[a] \o "\n" \o LinesFromTo(a + 1, b)

\* C21: splitIntoSections returns one section per line that starts with
\* "## ", in the order of these lines, the body of each being the lines
\* between its marker line and the next marker line (or the end), each once
\* and in order: only the marker lines and the lines before the first marker
\* are left out.  The empty document gives no section.
C21_SectionsPartitionLines ==
    indexedSections # NoReply =>
        LET found == indexedSections.value
            places == MarkerPlaces
        IN  /\ Len(found) = Len(places)
            /\ \A k \in 1..Len(places) :
                  (k <= Len(found)) =>
                     /\ found[k].title =
                           trim(SubSeq(IndexedLines[places[k]], 4,
                                       Len(IndexedLines[places[k]])))
                     /\ found[k].content =
                           LinesFromTo(places[k] + 1,
                                       IF k < Len(places) THEN places[k + 1] - 1
                                       ELSE Len(IndexedLines))
            /\ indexedMarkdown = "" => found = <<>>

C21_Witness ==
    /\ indexedSections # NoReply
    /\ indexedMarkdown = "text\n## A\n### sub"
    /\ indexedSections.value = <<[title |-> "A", content |-> "### sub\n"]>>

(***************************************************************************)
(* Properties of calculateRelevance.                                       *)
(***************************************************************************)
\* The number of non-overlapping occurrences of the literal p in s, found
\* left to right.
RECURSIVE LiteralCountFrom(_, _, _)
LiteralCountFrom(s, p, from) ==
    LET i == IndexOfFrom(s, p, from)
    IN  IF i = 0 THEN 0 ELSE 1 + LiteralCountFrom(s, p, i + Len(p))

LiteralCount(s, p) == LiteralCountFrom(s, p, 1)

\* The terms calculateRelevance scores for the query of the call.
ScoredTerms ==
    QueryTerms(toLowerCase(scoredQuery.value),
               normalizeQuery(toLowerCase(scoredQuery.value)))

\* Twice the sum over the terms of 15 * title count + body count, with the
\* counts of literal occurrences.
RECURSIVE LiteralTermScore(_)
LiteralTermScore(terms) ==
    IF terms = <<>> THEN 0
    ELSE 2 * (15 * LiteralCount(toLowerCase(scoredTitle), terms[1])
              + LiteralCount(toLowerCase(scoredContent), terms[1]))
         + LiteralTermScore(Tail(terms))

\* Twice the bonuses of the call: 50 for the body, 100 for the title.
ScoredBonuses ==
    LET normalizedQuery == normalizeQuery(toLowerCase(scoredQuery.value))
    IN  2 * ((IF includes(toLowerCase(scoredContent), normalizedQuery) THEN 50 ELSE 0)
             + (IF includes(toLowerCase(scoredTitle), normalizedQuery) THEN 100 ELSE 0))

ScoredBoosted ==
    /\ isBeginnerQuery(normalizeQuery(toLowerCase(scoredQuery.value)))
    /\ isBeginnerSection(toLowerCase(scoredTitle))

\* C22 (as claimed): for a query without an empty term, calculateRelevance
\* does not throw, and its score is the one made of the numbers of literal
\* occurrences of each term in the lower-cased title and body.
C22_TermsAreLiterals ==
    (scoredRelevance # NoReply /\ scoredQuery.value # "") =>
        /\ scoredRelevance.ok
        /\ scoredRelevance.value =
              (IF ScoredBoosted
               THEN 3 * ((LiteralTermScore(ScoredTerms) + ScoredBonuses) \div 2)
               ELSE LiteralTermScore(ScoredTerms) + ScoredBonuses)

\* Every whitespace-separated token of the query is a stop word or has at
\* most two characters.
AllTokensFiltered(query) ==
    LET tokens == splitWhitespace(normalizeQuery(toLowerCase(query)))
    IN  \A k \in 1..Len(tokens) : Len(tokens[k]) <= 2 \/ tokens[k] \in STOP_WORDS

\* C23 (as claimed): for a query whose tokens are all stop words or of at
\* most two characters, one fallback term is scored, searchDocumentation on
\* a readable file does not throw, and a second execution returns the same
\* list.
C23_StopWordFallback ==
    (/\ searchResult # NoReply
     /\ docsFile.readable
     /\ AllTokensFiltered(searchQuery.value)) =>
        /\ Len(QueryTerms(toLowerCase(searchQuery.value),
                          normalizeQuery(toLowerCase(searchQuery.value)))) = 1
        /\ searchResult.ok
        /\ searchResult = searchDocumentation(searchQuery, searchLimit, docsFile)

\* C24 (as claimed): when the search has returned, a section whose title is
\* the query, letter case aside, has a greater relevance than any section of
\* the file whose title contains none of the query terms and whose body
\* contains one.
C24_ExactTitleBeatsBody ==
    SearchReturned =>
        LET sections == splitIntoSections(docsFile.content)
            queryLower == toLowerCase(searchQuery.value)
            terms == QueryTerms(queryLower, normalizeQuery(queryLower))
        IN  \A i \in 1..Len(sections), j \in 1..Len(sections) :
               (/\ toLowerCase(sections[i].title) = queryLower
                /\ \A k \in 1..Len(terms) :
                      ~includes(toLowerCase(sections[j].title), terms[k])
                /\ \E k \in 1..Len(terms) :
                      includes(toLowerCase(sections[j].content), terms[k])) =>
                   calculateRelevance(searchQuery, sections[i].content,
                                      sections[i].title).value
                     > calculateRelevance(searchQuery, sections[j].content,
                                          sections[j].title).value

\* A term without pattern syntax: its matches are its occurrences.
PlainTerm(term) == term # "" /\ ~includes(term, ".") /\ ~includes(term, "(")

\* C30: when every surviving term of the query is plain, calculateRelevance
\* returns the sum over the terms of 15 * title occurrences + body
\* occurrences, plus 50 if the body contains the normalized query, plus 100
\* if the title contains it, the whole multiplied by 1.5 exactly when the
\* normalized query is a beginner query and the title a getting-started
\* title; the result is never negative.  (The value is twice the score.)
C30_ScoreFormulaBoostLast ==
    (scoredRelevance # NoReply
     /\ \A k \in 1..Len(ScoredTerms) : PlainTerm(ScoredTerms[k])) =>
        LET total == (LiteralTermScore(ScoredTerms) + ScoredBonuses) \div 2
        IN  /\ scoredRelevance.ok
            /\ scoredRelevance.value = (IF ScoredBoosted THEN 3 * total ELSE 2 * total)
            /\ scoredRelevance.value >= 0

\* A beginner query on a getting-started section whose body holds the whole
\* query: (1 + 1 + 1 + 50) * 1.5 = 79.5.
C30_Witness ==
    /\ scoredQuery.value = "first trace run"
    /\ scoredTitle = "Getting Started"
    /\ scoredContent = "a.c abc first trace run\n"
    /\ scoredRelevance = [ok |-> TRUE, value |-> 159]

\* C27: no step of a run of sendMessageToLLM changes params.messages: its
\* length and the sender and content at every position stay what they were
\* when the run began, to Done as to Failed, with a tool round or without.
C27_HistoryUnchanged == [][messages' = messages]_vars

\* A run with a tool round has ended on a history that is not empty, and its
\* first invocation was given that history after the system prompt.
C27_Witness ==
    /\ pc = "Done"
    /\ toolBatches = 1
    /\ Len(messages) > 0
    /\ Len(llmCalls[1].messages) = Len(messages) + 1
    /\ \A i \in 1..Len(messages) :
          llmCalls[1].messages[i + 1].content = messages[i].content

\* C28: the steps of a run are in order.  While the first invocation is
\* awaited it is the only one and no tool call has started; while the tool
\* calls are executed the first invocation has returned and the second has
\* not been made; once the second is made every tool call of the batch has
\* its result; there are never more than two invocations, and only the last
\* made can be awaited.
C28_StepsStrictlyOrdered ==
    /\ pc = "AwaitingFirstCompletion" =>
          /\ Len(llmCalls) = 1
          /\ xpc = "idle"
          /\ toolBatches = 0
          /\ searchLog = <<>>
    /\ xpc = "loop" =>
          /\ pc = "ToolRound"
          /\ Len(llmCalls) = 1
          /\ HasToolCalls(completion)
    /\ pc = "AwaitingFinalCompletion" => Len(llmCalls) = 2
    /\ Len(llmCalls) = 2 =>
          /\ xpc = "returned"
          /\ xi = Len(toolCalls)
          /\ Len(results) = Len(toolCalls)
          /\ \A i \in 1..Len(toolCalls) : results[i].toolCallId = toolCalls[i].id
    /\ Len(llmCalls) <= 2

\* The second invocation is awaited after a batch of two tool calls.
C28_Witness ==
    /\ pc = "AwaitingFinalCompletion"
    /\ Len(llmCalls) = 2
    /\ Len(toolCalls) = 2
    /\ Len(results) = 2

\* C29: when every invocation and every search settles, a run that has begun
\* comes to Done or Failed, and a run that had a tool round has then been
\* through each requested call once, with one result per call.
C29_RunTerminates ==
    (pc # "Idle") ~>
        (/\ pc \in {"Done", "Failed"}
         /\ toolBatches > 0 =>
               /\ toolBatches = 1
               /\ xi = Len(toolCalls)
               /\ Len(results) = Len(toolCalls)
               /\ \A i \in 1..Len(toolCalls) : results[i].toolCallId = toolCalls[i].id)

\* A run is over after a tool round of two calls, one of them a search.
C29_Witness ==
    /\ pc = "Done"
    /\ toolBatches = 1
    /\ xi = 2
    /\ Len(searchLog) >= 1
    /\ reply # NoReply

\* The errors a run can end with, whatever the tracing settings.
RunErrors ==
    {Rethrown([kind |-> "TRPCError", code |-> "PRECONDITION_FAILED",
               message |-> "Assistant LLM is not configured. Please set ASSISTANT_LLM_API_KEY in environment variables."]),
     Rethrown([kind |-> "TRPCError", code |-> "INTERNAL_SERVER_ERROR",
               message |-> "Unexpected response format from LLM"])}
    \cup {Rethrown([kind |-> "Error", message |-> m]) : m \in ModelErrors}

\* C26: the tracing settings do not bear on the outcome.  With one of the
\* three settings absent no invocation carries trace parameters and no
\* client is made; with all three every invocation carries the same ones.
\* Under every setting the invocations, the reply and the error are what
\* the history, the responses of the model and the tool results make them.
C26_TracingDoesNotChangeOutcome ==
    /\ Len(traceParams) = Len(llmCalls)
    /\ ~TracingConfigured(tracingEnv) =>
          /\ langfuseClient = Null
          /\ clientCalls = <<>>
          /\ \A i \in 1..Len(traceParams) :
                /\ traceParams[i].traceSinkParams = Undefined
                /\ ~traceParams[i].shouldUseLangfuseAPIKey
    /\ TracingConfigured(tracingEnv) =>
          \A i \in 1..Len(traceParams) :
             /\ traceParams[i].traceSinkParams.type = "object"
             /\ traceParams[i].shouldUseLangfuseAPIKey
             /\ traceParams[i] = traceParams[1]
    /\ Len(llmCalls) >= 1 =>
          llmCalls[1] = [messages |-> FormatMessages(messages), streaming |-> FALSE,
                         tools |-> <<DOCUMENTATION_SEARCH_TOOL>>]
    /\ Len(llmCalls) = 2 =>
          llmCalls[2] = [messages |-> FollowUpMessages(FormatMessages(messages),
                                                       completion, results),
                         streaming |-> FALSE]
    /\ pc = "Failed" => error \in RunErrors /\ reply = NoReply
    /\ pc = "Done" =>
          /\ error = NoError
          /\ IF toolBatches = 0
             THEN reply = PlainReply(completion).reply
             ELSE reply \in {ToolRoundReply(c, ExtractToolCalls(completion)) :
                               c \in FinalCompletions}

\* A run with a tool round has ended where the two keys are set and the
\* project id is not: both invocations went without trace parameters.
C26_Witness ==
    /\ tracingEnv = [publicKey |-> TRUE, secretKey |-> TRUE, projectId |-> FALSE]
    /\ pc = "Done"
    /\ toolBatches = 1
    /\ Len(traceParams) = 2
    /\ traceParams[2] = [traceSinkParams |-> Undefined, shouldUseLangfuseAPIKey |-> FALSE]

\* C25 (as claimed): the assistant message a call of sendMessage has stored
\* after a run with a tool round has the orchestrator's tool calls as
\* metadata.toolCalls and its final text as content; after a run without a
\* tool round its metadata has no toolCalls.
C25_ToolCallsStoredInMetadata ==
    \A r \in 1..Len(requests) :
       requests[r].state = "returned" =>
          LET result == requests[r].assistantResponse
              row == requests[r].assistantMessage
          IN  IF "toolCalls" \in DOMAIN result
              THEN /\ "metadata" \in DOMAIN row
                   /\ "toolCalls" \in DOMAIN row.metadata
                   /\ row.metadata.toolCalls = result.toolCalls
                   /\ row.content = result.content
              ELSE ~("metadata" \in DOMAIN row /\ "toolCalls" \in DOMAIN row.metadata)

\* C31: in every call of calculateRelevance the scored terms come from the
\* normalized query the two phrase checks use: each term is one of its
\* whitespace-separated tokens, or, when the fallback is used, the whole of
\* it.
C31_TermsFromNormalizedQuery ==
    scoredRelevance # NoReply =>
        LET normalizedQuery == normalizeQuery(toLowerCase(scoredQuery.value))
            tokens == splitWhitespace(normalizedQuery)
        IN  \A k \in 1..Len(ScoredTerms) :
               \/ \E t \in 1..Len(tokens) : ScoredTerms[k] = tokens[t]
               \/ Len(ScoredTerms) = 1 /\ ScoredTerms[k] = normalizedQuery

\* A query in the British spelling has been scored on its American term:
\* "analyze" is not in the title "analyse", and neither check adds to 0.
C31_Witness ==
    /\ scoredQuery.value = "analyse"
    /\ scoredTitle = "Analyse"
    /\ scoredContent = ""
    /\ ScoredTerms = <<"analyze">>
    /\ scoredRelevance = [ok |-> TRUE, value |-> 0]

\* The entries of a result text for the sections found, from the j-th on.
RECURSIVE ExpectedEntries(_, _)
ExpectedEntries(found, j) ==
    IF j > Len(found) THEN ""
    ELSE NumberToString(j) \o ". **" \o found[j].section \o "**\n\n"
            \o (IF Len(found[j].content) > 500
                THEN SubSeq(found[j].content, 1, 500) \o "..."
                ELSE found[j].content)
            \o "\n"
            \o (IF j < Len(found) THEN "\n" ELSE "")
            \o ExpectedEntries(found, j + 1)

\* C32: the result of a search_documentation call whose search returned
\* lists the sections found, at most five, numbered from 1 in ranking order,
\* each with its title and its content, cut after 500 characters and then
\* followed by "..."; when nothing was found it is the message "No
\* documentation found for query" with the query.
C32_ResultTextFormat ==
    (/\ xi > 0
     /\ xcalls[xi].name = "search_documentation"
     /\ QueryOf(xcalls[xi]).type = "string"
     /\ searchResult.ok) =>
        /\ Len(searchResult.value) <= 5
        /\ results[xi].content =
              (IF Len(searchResult.value) = 0
               THEN "No documentation found for query: \""
                       \o searchQuery.value \o "\""
               ELSE "Found " \o NumberToString(Len(searchResult.value))
                       \o " relevant documentation sections:\n\n"
                       \o ExpectedEntries(searchResult.value, 1))

\* The one section found has 501 characters: the result ends with the
\* first 500 and the mark.
C32_Witness ==
    /\ xpc = "returned"
    /\ Len(results) = 1
    /\ searchQuery = Str("traces")
    /\ searchResult = [ok |-> TRUE, value |-> <<FoundSection("Traces", 501, 230)>>]
    /\ results[1].content =
          "Found 1 relevant documentation sections:\n\n1. **Traces**\n\n"
             \o Repeat("x", 500) \o "...\n"

\* The texts of the text segments of items, in order, a newline between
\* two of them.
RECURSIVE TextSegmentsJoined(_, _)
TextSegmentsJoined(items, started) ==
    IF items = <<>> THEN ""
    ELSE IF Head(items).type = "text"
    THEN (IF started THEN "\n" ELSE "") \o Head(items).text
            \o TextSegmentsJoined(Tail(items), TRUE)
    ELSE TextSegmentsJoined(Tail(items), started)

\* C33: the assistant message of the follow-up list has the content of the
\* first response when that is a string, the newline-joined texts of its
\* text segments when it is a list of segments, and the empty string
\* otherwise.
C33_InitialContentFlattened ==
    Len(llmCalls) = 2 =>
        LET assistant == llmCalls[2].messages[Len(llmCalls[1].messages) + 1]
            fields == completion.fields
        IN  /\ assistant.role = "assistant"
            /\ assistant.content =
                  (IF "content" \in DOMAIN fields /\ fields.content.type = "string"
                   THEN fields.content.value
                   ELSE IF "content" \in DOMAIN fields /\ fields.content.type = "array"
                   THEN TextSegmentsJoined(fields.content.items, FALSE)
                   ELSE "")

\* The first response was text, a tool_use segment, text.
C33_Witness ==
    /\ Len(llmCalls) = 2
    /\ completion.fields.content = ArrayContent
    /\ llmCalls[2].messages[Len(llmCalls[1].messages) + 1].content = "Let me\nsearch."

\* A response that is no plain text, no object with a non-empty list of
\* tool calls and no object with a content field.
Malformed(c) ==
    /\ c.type # "string"
    /\ ~(/\ c.type = "object"
         /\ "tool_calls" \in DOMAIN c.fields
         /\ c.fields.tool_calls.type = "array"
         /\ c.fields.tool_calls.items # <<>>)
    /\ ~(c.type = "object" /\ "content" \in DOMAIN c.fields)

\* C34: once the first invocation is over with a malformed response, the run
\* is Failed with a TRPCError INTERNAL_SERVER_ERROR, without a reply, a tool
\* execution or a second invocation; for a malformed object the error is
\* the one of the unexpected format.
C34_MalformedResponseFails ==
    (/\ Len(llmCalls) >= 1
     /\ pc # "AwaitingFirstCompletion"
     /\ Malformed(completion)) =>
        /\ pc = "Failed"
        /\ error.kind = "TRPCError"
        /\ error.code = "INTERNAL_SERVER_ERROR"
        /\ completion.type = "object" =>
              /\ error.message = "Unexpected response format from LLM"
              /\ "cause" \notin DOMAIN error
        /\ reply = NoReply
        /\ Len(llmCalls) = 1
        /\ toolBatches = 0
        /\ xi = 0
        /\ searchLog = <<>>

\* The first response was an object with an empty tool_calls list and no
\* content.
C34_Witness ==
    /\ pc = "Failed"
    /\ completion = Obj([tool_calls |-> Arr(<<>>)])
    /\ error.message = "Unexpected response format from LLM"

\* C35: over any sequence of calls of getLangfuseClient, only the first call
\* constructs a client, every call returns the client made from the first
\* call's credentials, and the singleton is that client from then on.
C35_ClientCreatedOnce ==
    /\ clientCalls = <<>> => langfuseClient = Null
    /\ \A i \in 1..Len(clientCalls) :
          /\ clientCalls[i].constructed <=> (i = 1)
          /\ clientCalls[i].returned = clientCalls[1].returned
          /\ clientCalls[i].returned.publicKey = clientCalls[1].credentials.publicKey
          /\ clientCalls[i].returned.secretKey = clientCalls[1].credentials.secretKey
          /\ clientCalls[i].returned.baseUrl = clientCalls[1].credentials.baseUrl
          /\ langfuseClient = clientCalls[1].returned

\* Three calls, the later ones with other keys than the first.
C35_Witness ==
    /\ Len(clientCalls) = 3
    /\ clientCalls[1].credentials.publicKey = "pk-lf-1"
    /\ clientCalls[2].credentials.publicKey = "pk-lf-2"
    /\ clientCalls[3].credentials.secretKey = "sk-lf-2"
    /\ clientCalls[3].returned.publicKey = "pk-lf-1"
    /\ clientCalls[3].returned.secretKey = "sk-lf-1"


(***************************************************************************)
(* C39: executeToolCalls runs the calls of a batch one at a time, in input *)
(* order.  At every moment of the loop the result list holds one result    *)
(* for each call of a prefix of the call list, in the order of the calls,  *)
(* and the searches started so far are those of the search calls of that   *)
(* same prefix: the search of the next call has not started.               *)
(***************************************************************************)
IsSearchCall(call) == call.name = "search_documentation"

QueriesOfSearchCalls(calls) ==
    LET searched == SelectSeq(calls, IsSearchCall)
    IN  [j \in 1..Len(searched) |-> QueryOf(searched[j])]

C39_ResultsOfPrefix ==
    xpc \in {"loop", "returned"} =>
        /\ xi \in 0..Len(xcalls)
        /\ Len(results) = xi
        /\ \A j \in 1..xi : results[j].toolCallId = xcalls[j].id
        /\ searchLog = QueriesOfSearchCalls(SubSeq(xcalls, 1, xi))
        /\ xpc = "returned" => xi = Len(xcalls)

C39_Witness ==
    /\ xpc = "loop"
    /\ Len(xcalls) = 2
    /\ xi = 1
    /\ IsSearchCall(xcalls[1])
    /\ IsSearchCall(xcalls[2])
    /\ Len(results) = 1
    /\ Len(searchLog) = 1


(***************************************************************************)
(* C37: in every run of sendMessage, also when runs on one conversation    *)
(* interleave, the history passed to sendMessageToLLM contains the user    *)
(* message the run stored, and that message is its last element.           *)
(***************************************************************************)
HistoryLoaded(r) ==
    requests[r].state \in {"calling", "answered", "returned", "failed"}

\* Where the user message of run r is among the messages of its conversation.
PlaceOfUserMessage(r) ==
    LET rows == MessagesOf(requests[r].conversationId)
    IN  CHOOSE k \in 1..Len(rows) : rows[k].id = requests[r].userMessage.id

C37_OwnMessageLast ==
    \A r \in 1..Len(requests) :
        HistoryLoaded(r) =>
            LET history == requests[r].messageHistory
            IN  /\ Len(history) > 0
                /\ PlaceOfUserMessage(r) = Len(history)
                /\ history[Len(history)] =
                      [sender |-> "user", content |-> requests[r].content]

\* C37 as the code has it: the history is the conversation as it was stored
\* when the run loaded it, the run's own user message is in it, and whatever
\* follows that message was stored to the same conversation by another run
\* between this run's insert and its query; with no such run the message is
\* the last element.
C37_OwnMessageInHistory ==
    \A r \in 1..Len(requests) :
        HistoryLoaded(r) =>
            LET history == requests[r].messageHistory
                rows == MessagesOf(requests[r].conversationId)
                k == PlaceOfUserMessage(r)
            IN  /\ requests[r].invocations = 1
                /\ Len(history) <= Len(rows)
                /\ \A j \in 1..Len(history) :
                      history[j] = [sender |-> rows[j].sender,
                                    content |-> rows[j].content]
                /\ k <= Len(history)
                /\ history[k] = [sender |-> "user", content |-> requests[r].content]
                /\ \A j \in (k + 1)..Len(history) :
                      \E other \in 1..Len(requests) :
                         /\ other # r
                         /\ requests[other].conversationId = requests[r].conversationId
                         /\ \/ requests[other].userMessage = rows[j]
                            \/ requests[other].assistantMessage = rows[j]

\* Two runs on one conversation: the second stored its message before the
\* first loaded its history.
C37_Witness ==
    /\ Len(requests) = 2
    /\ requests[1].conversationId = requests[2].conversationId
    /\ HistoryLoaded(1)
    /\ HistoryLoaded(2)
    /\ Len(requests[1].messageHistory) = 2
    /\ requests[1].messageHistory[1] = [sender |-> "user", content |-> "Message 1"]
    /\ requests[1].messageHistory[2] = [sender |-> "user", content |-> "Message 2"]


(***************************************************************************)
(* C36: when a sendMessage mutation of ChatView fails, the cached          *)
(* conversation that got the optimistic user message, the one the message  *)
(* was sent to, is put back to its snapshot and the cache of no other      *)
(* conversation changes, whatever was selected while the request was in    *)
(* flight.                                                                 *)
(***************************************************************************)
C36_FailedSendRestoresItsConversation ==
    [][\A i \in 1..Len(mutations) :
          (/\ mutations[i].status = "pending"
           /\ mutations'[i].status = "error"
           /\ mutations[i].context.previousConversation # Undefined)
          => queryCache' =
                [queryCache EXCEPT ![mutations[i].variables.conversationId] =
                    mutations[i].context.previousConversation]]_vars

(***************************************************************************)
(* C38: isWaitingForResponse is true from the start of a sendMessage       *)
(* mutation until it settles, and false once it has settled by success or  *)
(* by error; while it is true the input submits nothing, so at most one    *)
(* mutation of a ChatView is in flight, and the content of every mutation  *)
(* is trimmed and not empty.                                               *)
(***************************************************************************)
InFlight == {i \in 1..Len(mutations) : mutations[i].status \in {"onMutate", "pending"}}

C38_OneMutationInFlight ==
    /\ isWaitingForResponse <=> (InFlight # {})
    /\ Cardinality(InFlight) <= 1
    /\ \A i \in 1..Len(mutations) :
          /\ mutations[i].status \in {"onMutate", "pending", "success", "error"}
          /\ mutations[i].variables.content # ""
          /\ mutations[i].variables.content = trim(mutations[i].variables.content)
          /\ mutations[i].variables.conversationId # NoConversation

\* While a mutation is in flight no step starts another one.
C38_NoSubmitWhileWaiting ==
    [][isWaitingForResponse => Len(mutations') = Len(mutations)]_vars

C38_WaitingWhileInFlight == []C38_OneMutationInFlight /\ C38_NoSubmitWhileWaiting

\* A message typed with spaces around it was sent and failed, a second one
\* is in flight, and the conversation selected is not the one it was sent to.
C38_Witness ==
    /\ Len(mutations) = 2
    /\ mutations[1].status = "error"
    /\ mutations[2].status = "pending"
    /\ mutations[2].variables.content = "Hi"
    /\ isWaitingForResponse
    /\ selectedConversationId # mutations[2].variables.conversationId
    /\ message = ""

=============================================================================
